---- MODULE Spec2Model ----
(***************************************************************************)
(* A model of the timeline correlation and segmentation engine of the      *)
(* ChromeOS log analyzer: the segmenter (src/main.py), the nearest-        *)
(* timestamp search and the timestamp extraction (analyzers/               *)
(* error_detector.py, parsers/cros_ec_parser.py, parsers/vmlog_parser.py)  *)
(* and the event classification of the three event parsers.                *)
(*                                                                         *)
(* Every component is a set of pure functions of its input.  Each has its  *)
(* own specification: Init draws the input from bounded sets, the actions  *)
(* apply the functions as the pipeline calls them.  The variables of the   *)
(* other components stay idle.                                             *)
(***************************************************************************)
EXTENDS Integers, Sequences, FiniteSets, TLC

VARIABLES
    \* ---- segmenter (src/main.py) ----
    seg_pc,                 \* "idle" | "input" | "gap" | "composed" | "duration"
    entries,                \* the sorted vmlog entries handed to the segmenter
    max_gap_seconds,        \* time_gap_threshold
    max_duration_minutes,   \* max_chart_duration
    gap_chunks,             \* split_entries_by_time_gap(entries)
    all_chunks,             \* main: the duration split of every gap chunk, in order
    duration_chunks,        \* split_entries_by_max_duration(entries)
    \* ---- nearest-timestamp search (analyzers/error_detector.py) ----
    near_pc,                \* "idle" | "input" | "done"
    timestamps,             \* the sorted vmlog timestamps
    target,                 \* the timestamp looked up
    nearest,                \* what _find_nearest_timestamp returned
    \* ---- timestamp extraction (error_detector.py, cros_ec_parser.py, vmlog_parser.py) ----
    ts_pc,                  \* "idle" | "input" | "ErrorDetector" | "CrosEcParser" | "VmlogParser"
    ts_line,                \* the text: the timestamp stamps it carries, left to right
    ts_year_arg,            \* the reference_year given to the constructor (None: not given)
    ts_now_year,            \* datetime.now().year
    ts_result,              \* the datetime returned, or Absent
    \* ---- event parsers (error_detector.py, cros_ec_parser.py, system_log_parser.py) ----
    ev_pc,                  \* "idle" | "input" | "done" | "mapped" | "filtered"
    ev_dialect,             \* the parser; for SystemLogParser its log_type
    ev_min_level,           \* SystemLogParser.min_level
    ev_reference_year,      \* reference_year of ErrorDetector and CrosEcParser
    ev_content,             \* the lines of the log handed to the parser
    ev_events,              \* the events the parser returned
    ev_vmlog_data,          \* the vmlog entries the events were mapped to
    ev_segment,             \* start_time and end_time of the segment charted
    ev_segment_errors,      \* main: the errors annotated on the segment's chart
    \* ---- vmlog parsing (parsers/vmlog_parser.py) ----
    vm_pc,                  \* "idle" | "input" | "done"
    vm_content,             \* the lines of the vmlog text
    vm_convert_arg,         \* convert_freq_to_mhz as given to the constructor
    vm_reference_year,      \* reference_year
    vm_entries,             \* what parse_content returned
    \* ---- spike detection (analyzers/metrics_analyzer.py) ----
    sp_pc,                  \* "idle" | "input" | "done"
    sp_vmlog_data,          \* the samples: records of the metrics they carry
    sp_threshold,           \* spike_threshold, as numerator and denominator
    sp_spikes,              \* what detect_spikes(vmlog_data, 'cpuusage') returned
    \* ---- statistics and detectors (analyzers/metrics_analyzer.py) ----
    an_pc,                  \* "idle" | "ready"
    an_vmlog_data,          \* the list of samples the methods are called on
    an_thresholds,          \* spike_threshold and the page fault threshold
    an_called,              \* the methods called so far
    an_results,             \* what each method returned when last called
    \* ---- sampling and segment records (chart_generator.py, main.py) ----
    sm_pc,                  \* "idle" | "input" | "sampled" | "built"
    sm_chunk_entries,       \* the samples of one chunk
    sm_max_points,          \* max_points, max_data_points
    sm_sampled,             \* what sample_data returned
    sm_segment,             \* the segment record main built (Absent: none)
    \* ---- feedback file sections (parsers/user_feedback_parser.py) ----
    fb_pc,                  \* "idle" | "input" | "done"
    fb_lines,               \* the lines of the content
    fb_sections,            \* what _split_sections returned
    \* ---- parse_content calls on one parser instance ----
    ps_parser,              \* "none" | "VmlogParser" | "TempLoggerParser"
    ps_self,                \* what the instance holds: columns, the sensor-name sets
    ps_calls                \* the two calls: their locals and what they returned

segVars == <<seg_pc, entries, max_gap_seconds, max_duration_minutes,
             gap_chunks, all_chunks, duration_chunks>>

nearVars == <<near_pc, timestamps, target, nearest>>

tsVars == <<ts_pc, ts_line, ts_year_arg, ts_now_year, ts_result>>

evVars == <<ev_pc, ev_dialect, ev_min_level, ev_reference_year, ev_content, ev_events,
            ev_vmlog_data, ev_segment, ev_segment_errors>>

vmVars == <<vm_pc, vm_content, vm_convert_arg, vm_reference_year, vm_entries>>

spVars == <<sp_pc, sp_vmlog_data, sp_threshold, sp_spikes>>

anVars == <<an_pc, an_vmlog_data, an_thresholds, an_called, an_results>>

smVars == <<sm_pc, sm_chunk_entries, sm_max_points, sm_sampled, sm_segment>>

fbVars == <<fb_pc, fb_lines, fb_sections>>
psVars == <<ps_parser, ps_self, ps_calls>>

vars == <<segVars, nearVars, tsVars, evVars, vmVars, spVars, anVars, smVars, fbVars, psVars>>

outsideSeg ==
    <<nearVars, tsVars, evVars, vmVars, spVars, anVars, smVars, fbVars, psVars>>
outsideNear ==
    <<segVars, tsVars, evVars, vmVars, spVars, anVars, smVars, fbVars, psVars>>
outsideTs ==
    <<segVars, nearVars, evVars, vmVars, spVars, anVars, smVars, fbVars, psVars>>
outsideEv ==
    <<segVars, nearVars, tsVars, vmVars, spVars, anVars, smVars, fbVars, psVars>>
outsideVm ==
    <<segVars, nearVars, tsVars, evVars, spVars, anVars, smVars, fbVars, psVars>>
outsideSp ==
    <<segVars, nearVars, tsVars, evVars, vmVars, anVars, smVars, fbVars, psVars>>
outsideAn ==
    <<segVars, nearVars, tsVars, evVars, vmVars, spVars, smVars, fbVars, psVars>>
outsideSm ==
    <<segVars, nearVars, tsVars, evVars, vmVars, spVars, anVars, fbVars, psVars>>
outsideFb ==
    <<segVars, nearVars, tsVars, evVars, vmVars, spVars, anVars, smVars, psVars>>
outsidePs ==
    <<segVars, nearVars, tsVars, evVars, vmVars, spVars, anVars, smVars, fbVars>>

(***************************************************************************)
(* Python values                                                           *)
(***************************************************************************)

\* entry.get('timestamp') of an entry without one.  Timestamps of the
\* segmenter are whole seconds on one clock, all >= 0.
None == -1

\* `if ts`: a datetime is always truthy, None is not.
Truthy(ts) == ts # None

RECURSIVE Concat(_)
Concat(chunks) ==
    IF chunks = <<>> THEN <<>> ELSE Head(chunks) \o Concat(Tail(chunks))

(***************************************************************************)
(* Bounds of the segmenter's inputs                                        *)
(***************************************************************************)
MaxEntries == 3

\* Seconds on the clock: around 0, the 0/1/21 scenario, and around the
\* one- and two-minute marks.
SegTimes == {0, 1, 21, 60, 61, 120, 121}
GapChoices == {0, 1, 5, 20}
DurationChoices == {0, 1, 2}

TimestampSeqs(n) == [1..n -> SegTimes \cup {None}]

\* An entry keeps its position in the input as its identity.
MakeEntries(ts) == [i \in 1..Len(ts) |-> [id |-> i, timestamp |-> ts[i]]]

EntryInputs == {MakeEntries(ts) : ts \in UNION {TimestampSeqs(n) : n \in 0..MaxEntries}}

(***************************************************************************)
(* split_entries_by_time_gap                                               *)
(***************************************************************************)

\* main.py:316  `if gap > max_gap_seconds`
GapExceeds_GE(gap, max_gap) == gap >= max_gap
GapExceeds(gap, max_gap) == gap > max_gap

\* main.py:311-319  the test of one loop iteration (i is 1-based here)
GapSplitsAt(es, i, max_gap) ==
    LET prev_ts == es[i - 1].timestamp
        curr_ts == es[i].timestamp
    IN  /\ Truthy(prev_ts)
        /\ Truthy(curr_ts)
        /\ GapExceeds(curr_ts - prev_ts, max_gap)

\* main.py:323-327  "Don't forget the last chunk"
AppendLastChunk_Forgotten(chunks, current_chunk) == chunks
AppendLastChunk(chunks, current_chunk) ==
    IF current_chunk # <<>> THEN Append(chunks, current_chunk) ELSE chunks

\* main.py:310-321  for i in range(1, len(entries))
RECURSIVE GapLoop(_, _, _, _, _)
GapLoop(es, max_gap, i, chunks, current_chunk) ==
    IF i > Len(es)
    THEN AppendLastChunk(chunks, current_chunk)
    ELSE IF GapSplitsAt(es, i, max_gap)
         THEN GapLoop(es, max_gap, i + 1, Append(chunks, current_chunk), <<es[i]>>)
         ELSE GapLoop(es, max_gap, i + 1, chunks, Append(current_chunk, es[i]))

\* main.py:293-327
split_entries_by_time_gap(es, max_gap) ==
    IF es = <<>> THEN <<>> ELSE GapLoop(es, max_gap, 2, <<>>, <<es[1]>>)

(***************************************************************************)
(* split_entries_by_max_duration                                           *)
(***************************************************************************)

\* main.py:345  max_duration_minutes * 60
MaxDurationSeconds_AsHours(minutes) == minutes * 3600
MaxDurationSeconds(minutes) == minutes * 60

\* main.py:363  `if duration > max_duration_seconds`
DurationExceeds(duration, max_seconds) == duration > max_seconds

\* main.py:368  the anchor of the chunk that entry ts starts
NewAnchor_Kept(chunk_start_time, ts) == chunk_start_time
NewAnchor(chunk_start_time, ts) == ts

\* main.py:350-370  for entry in entries.  chunk_start_time is None until
\* the first timestamped entry and is never None again.
RECURSIVE DurationLoop(_, _, _, _, _, _)
DurationLoop(es, max_seconds, i, chunks, current_chunk, chunk_start_time) ==
    IF i > Len(es)
    THEN AppendLastChunk(chunks, current_chunk)
    ELSE LET entry == es[i]
             ts == entry.timestamp
         IN  IF ~Truthy(ts)
             THEN DurationLoop(es, max_seconds, i + 1, chunks,
                               Append(current_chunk, entry), chunk_start_time)
             ELSE IF chunk_start_time = None
             THEN DurationLoop(es, max_seconds, i + 1, chunks,
                               Append(current_chunk, entry), ts)
             ELSE IF DurationExceeds(ts - chunk_start_time, max_seconds)
             THEN DurationLoop(es, max_seconds, i + 1,
                               AppendLastChunk(chunks, current_chunk),
                               <<entry>>, NewAnchor(chunk_start_time, ts))
             ELSE DurationLoop(es, max_seconds, i + 1, chunks,
                               Append(current_chunk, entry), chunk_start_time)

\* main.py:330-376
split_entries_by_max_duration(es, minutes) ==
    IF es = <<>> THEN <<>>
    ELSE DurationLoop(es, MaxDurationSeconds(minutes), 1, <<>>, <<>>, None)

\* main.py:507-510  all_chunks.extend(duration_chunks) for every gap chunk
RECURSIVE ComposeDuration(_, _)
ComposeDuration(chunks, minutes) ==
    IF chunks = <<>> THEN <<>>
    ELSE split_entries_by_max_duration(Head(chunks), minutes)
            \o ComposeDuration(Tail(chunks), minutes)

(***************************************************************************)
(* The segmenter as the pipeline runs it                                   *)
(***************************************************************************)
SegIdle ==
    /\ seg_pc = "idle"
    /\ entries = <<>>
    /\ max_gap_seconds = 0
    /\ max_duration_minutes = 0
    /\ gap_chunks = <<>>
    /\ all_chunks = <<>>
    /\ duration_chunks = <<>>

SegInit ==
    /\ seg_pc = "input"
    /\ entries \in EntryInputs
    /\ max_gap_seconds \in GapChoices
    /\ max_duration_minutes \in DurationChoices
    /\ gap_chunks = <<>>
    /\ all_chunks = <<>>
    /\ duration_chunks = <<>>

\* main.py:503
SplitByTimeGap ==
    /\ seg_pc = "input"
    /\ gap_chunks' = split_entries_by_time_gap(entries, max_gap_seconds)
    /\ seg_pc' = "gap"
    /\ UNCHANGED <<entries, max_gap_seconds, max_duration_minutes,
                   all_chunks, duration_chunks>>
    /\ UNCHANGED outsideSeg

\* main.py:506-510
SplitGapChunksByDuration ==
    /\ seg_pc = "gap"
    /\ all_chunks' = ComposeDuration(gap_chunks, max_duration_minutes)
    /\ seg_pc' = "composed"
    /\ UNCHANGED <<entries, max_gap_seconds, max_duration_minutes,
                   gap_chunks, duration_chunks>>
    /\ UNCHANGED outsideSeg

\* split_entries_by_max_duration called on the whole input
SplitByMaxDuration ==
    /\ seg_pc = "input"
    /\ duration_chunks' = split_entries_by_max_duration(entries, max_duration_minutes)
    /\ seg_pc' = "duration"
    /\ UNCHANGED <<entries, max_gap_seconds, max_duration_minutes,
                   gap_chunks, all_chunks>>
    /\ UNCHANGED outsideSeg

SegNext == SplitByTimeGap \/ SplitGapChunksByDuration \/ SplitByMaxDuration


(***************************************************************************)
(* ErrorDetector._find_nearest_timestamp                                   *)
(***************************************************************************)
MaxTimestamps == 3
MaxTime == 4

NearTimes == 0..MaxTime

\* The timestamps of the time-sorted vmlog entries: non-decreasing.
SortedTimestampLists ==
    {ts \in UNION {[1..n -> NearTimes] : n \in 0..MaxTimestamps} :
        \A i \in 1..(Len(ts) - 1) : ts[i] <= ts[i + 1]}

\* error_detector.py:257  bisect.bisect_left(a, x): lo and hi are 0-based,
\* a[mid] of the code is a[mid + 1] here.
BisectLess_OrEqual(a, mid, x) == a[mid + 1] <= x
BisectLess(a, mid, x) == a[mid + 1] < x

RECURSIVE BisectLoop(_, _, _, _)
BisectLoop(a, x, lo, hi) ==
    IF lo < hi
    THEN LET mid == (lo + hi) \div 2
         IN  IF BisectLess(a, mid, x)
             THEN BisectLoop(a, x, mid + 1, hi)
             ELSE BisectLoop(a, x, lo, mid)
    ELSE lo

bisect_left(a, x) == BisectLoop(a, x, 0, Len(a))

\* error_detector.py:268  `if (target - before) <= (after - target)`
BeforeIsNearer_Strict(t, before, after) == (t - before) < (after - t)
BeforeIsNearer(t, before, after) == (t - before) <= (after - t)

\* error_detector.py:254  `if not timestamps`
NoTimestamps_Never(ts) == FALSE
NoTimestamps(ts) == ts = <<>>

\* error_detector.py:243-270; the index returned is 0-based, None on [].
find_nearest_timestamp(ts, t) ==
    IF NoTimestamps(ts) THEN None
    ELSE LET idx == bisect_left(ts, t)
         IN  IF idx = 0 THEN 0
             ELSE IF idx = Len(ts) THEN Len(ts) - 1
             ELSE LET before == ts[(idx - 1) + 1]
                      after == ts[idx + 1]
                  IN  IF BeforeIsNearer(t, before, after) THEN idx - 1 ELSE idx

NearIdle ==
    /\ near_pc = "idle"
    /\ timestamps = <<>>
    /\ target = 0
    /\ nearest = None

NearInit ==
    /\ near_pc = "input"
    /\ timestamps \in SortedTimestampLists
    /\ target \in NearTimes
    /\ nearest = None

\* error_detector.py:236
FindNearest ==
    /\ near_pc = "input"
    /\ nearest' = find_nearest_timestamp(timestamps, target)
    /\ near_pc' = "done"
    /\ UNCHANGED <<timestamps, target>>
    /\ UNCHANGED outsideNear

NearNext == FindNearest

(***************************************************************************)
(* Timestamp text.  A line is the sequence of timestamp stamps it carries; *)
(* a stamp is the text one pattern matches, its digits kept as digits.     *)
(*   iso     YYYY-MM-DDTHH:MM:SS      date = 8 digits, time = 6 digits     *)
(*   syslog  Mon D HH:MM:SS           name = Mon, date = 1 or 2 day digits *)
(*   kernel  [seconds.fraction]       seconds since boot                   *)
(*   vmlog   [MMDD/HHMMSS]            date = 4 digits, time = 6 digits     *)
(*   chrome  MMDD/HHMMSS.microseconds date = 4 digits, time = 6 digits     *)
(* No stamp of one kind is matched by the pattern of another kind.         *)
(***************************************************************************)
MaxStamps == 2

\* The result "no timestamp" (Python None where a datetime is expected).
Absent == [absent |-> TRUE]

\* What datetime(...) and strptime raise on fields that are no date-time.
ValueError == [raised |-> "ValueError"]

\* Two and four decimal digits of a number, as text.
D2(n) == <<(n \div 10) % 10, n % 10>>
D4(n) == <<(n \div 1000) % 10, (n \div 100) % 10>> \o D2(n)

\* error_detector.py:37, cros_ec_parser.py:110
IsoStamp(y, mo, d, h, mi, sec) ==
    [kind |-> "iso", name |-> "", date |-> D4(y) \o D2(mo) \o D2(d),
     time |-> D2(h) \o D2(mi) \o D2(sec)]

\* error_detector.py:39, cros_ec_parser.py:112
SyslogStamp(name, day_digits, h, mi, sec) ==
    [kind |-> "syslog", name |-> name, date |-> day_digits,
     time |-> D2(h) \o D2(mi) \o D2(sec)]

\* error_detector.py:41, cros_ec_parser.py:114
KernelStamp == [kind |-> "kernel", name |-> "", date |-> <<>>, time |-> <<>>]

\* error_detector.py:43, vmlog_parser.py:34
VmlogStamp(mo, d, h, mi, sec) ==
    [kind |-> "vmlog", name |-> "", date |-> D2(mo) \o D2(d),
     time |-> D2(h) \o D2(mi) \o D2(sec)]

\* error_detector.py:45
ChromeStamp(mo, d, h, mi, sec) ==
    [kind |-> "chrome", name |-> "", date |-> D2(mo) \o D2(d),
     time |-> D2(h) \o D2(mi) \o D2(sec)]

\* Month, day, hour, minute, second as written in a stamp: a good one, 29
\* February, and one bad field at a time.
StampFields ==
    { <<10, 27, 15, 14, 47>>, <<2, 29, 0, 0, 0>>, <<13, 27, 15, 14, 47>>,
      <<2, 30, 15, 14, 47>>, <<10, 27, 24, 0, 0>>, <<10, 27, 23, 60, 0>>,
      <<10, 27, 23, 59, 60>> }

MonthNames == {"Oct", "Feb", "Foo"}
SyslogFields ==
    { <<"Oct", <<3, 1>>, 11, 58, 18>>, <<"Oct", <<5>>, 9, 30, 0>>,
      <<"Feb", <<2, 9>>, 0, 0, 0>>, <<"Foo", <<3, 1>>, 11, 58, 18>>,
      <<"Oct", <<3, 2>>, 11, 58, 18>>, <<"Oct", <<3, 1>>, 24, 0, 0>>,
      <<"Feb", <<3, 0>>, 23, 59, 59>> }

IsoYears == {2023, 0}

Stamps ==
    {IsoStamp(y, f[1], f[2], f[3], f[4], f[5]) : y \in IsoYears, f \in StampFields}
    \cup {SyslogStamp(f[1], f[2], f[3], f[4], f[5]) : f \in SyslogFields}
    \cup {KernelStamp}
    \cup {VmlogStamp(f[1], f[2], f[3], f[4], f[5]) : f \in StampFields}
    \cup {ChromeStamp(f[1], f[2], f[3], f[4], f[5]) : f \in StampFields}

\* Lines of the logs the event parsers read.
Lines == UNION {[1..n -> Stamps] : n \in 0..MaxStamps}

\* The strings handed to VmlogParser._parse_timestamp: one bracketed stamp of
\* any ten digits tried here, or text that is no stamp at all.
VmlogMonths == 0..13
VmlogDays == {0, 1, 28, 29, 30, 31, 32}
VmlogHours == {0, 15, 23, 24}
VmlogMinutes == {0, 14, 59, 60}
VmlogSeconds == {0, 47, 59, 60}
VmlogTimeStrings ==
    {<<VmlogStamp(mo, d, h, mi, sec)>> :
        mo \in VmlogMonths, d \in VmlogDays, h \in VmlogHours,
        mi \in VmlogMinutes, sec \in VmlogSeconds}

YearArgs == {None, 2024, 2025}
NowYears == {2026}

(***************************************************************************)
(* Python helpers                                                          *)
(***************************************************************************)

\* int(text) of a digit string
RECURSIVE int(_)
int(digits) ==
    IF digits = <<>> THEN 0
    ELSE 10 * int(SubSeq(digits, 1, Len(digits) - 1)) + digits[Len(digits)]

\* text[a:b] and text[a:]
Slice(text, a, b) == SubSeq(text, a + 1, b)
SliceFrom(text, a) == SubSeq(text, a + 1, Len(text))

IsLeap(y) == (y % 4 = 0 /\ y % 100 # 0) \/ y % 400 = 0

DaysInMonth(y, mo) ==
    IF mo = 2 THEN (IF IsLeap(y) THEN 29 ELSE 28)
    ELSE IF mo \in {4, 6, 9, 11} THEN 30 ELSE 31

\* datetime(year, month, day, hour, minute, second): the value, or ValueError
datetime(y, mo, d, h, mi, sec) ==
    IF /\ y \in 1..9999
       /\ mo \in 1..12
       /\ d \in 1..DaysInMonth(y, mo)
       /\ h \in 0..23
       /\ mi \in 0..59
       /\ sec \in 0..59
    THEN [year |-> y, month |-> mo, day |-> d, hour |-> h, minute |-> mi, second |-> sec]
    ELSE ValueError

\* `reference_year or datetime.now().year`: None and 0 are falsy
ReferenceYear(year_arg, now_year) ==
    IF year_arg = None \/ year_arg = 0 THEN now_year ELSE year_arg

\* pattern.search(line): the first stamp of the kind, <<>> if there is none
Search(line, kind) ==
    LET hits == {i \in 1..Len(line) : line[i].kind = kind}
    IN  IF hits = {} THEN <<>>
        ELSE <<line[CHOOSE i \in hits : \A j \in hits : i <= j]>>

(***************************************************************************)
(* ErrorDetector._extract_timestamp / _parse_timestamp                     *)
(***************************************************************************)

\* error_detector.py:35-46  the formats in the order they are tried
EdTimestampPatterns_VmlogFirst == <<"iso", "syslog", "vmlog", "kernel", "chrome">>
EdTimestampPatterns == <<"iso", "syslog", "kernel", "vmlog", "chrome">>

\* error_detector.py:49-53, cros_ec_parser.py:117-121
MONTH_MAP ==
    [n \in {"Jan", "Feb", "Mar", "Apr", "May", "Jun",
            "Jul", "Aug", "Sep", "Oct", "Nov", "Dec"} |->
        CASE n = "Jan" -> 1 [] n = "Feb" -> 2 [] n = "Mar" -> 3 [] n = "Apr" -> 4
          [] n = "May" -> 5 [] n = "Jun" -> 6 [] n = "Jul" -> 7 [] n = "Aug" -> 8
          [] n = "Sep" -> 9 [] n = "Oct" -> 10 [] n = "Nov" -> 11 [] n = "Dec" -> 12]

\* MONTH_MAP.get(name, 1)
MonthMapGet(name) == IF name \in DOMAIN MONTH_MAP THEN MONTH_MAP[name] ELSE 1

\* error_detector.py:154-157  strptime(ts_str, '%Y-%m-%dT%H:%M:%S')
ParseIso(m) ==
    datetime(int(Slice(m.date, 0, 4)), int(Slice(m.date, 4, 6)), int(Slice(m.date, 6, 8)),
             int(Slice(m.time, 0, 2)), int(Slice(m.time, 2, 4)), int(Slice(m.time, 4, 6)))

\* error_detector.py:159-169, cros_ec_parser.py:227-238
ParseSyslog(m, reference_year) ==
    datetime(reference_year, MonthMapGet(m.name), int(m.date),
             int(Slice(m.time, 0, 2)), int(Slice(m.time, 2, 4)), int(Slice(m.time, 4, 6)))

\* error_detector.py:171-174  seconds since boot: "Return None"
EdParseKernel_Guessed(m, reference_year) == datetime(reference_year, 1, 1, 0, 0, 0)
EdParseKernel(m, reference_year) == Absent

\* error_detector.py:176-196  the vmlog and the chrome branch
ParseCompact(m, reference_year) ==
    datetime(reference_year, int(Slice(m.date, 0, 2)), int(SliceFrom(m.date, 2)),
             int(Slice(m.time, 0, 2)), int(Slice(m.time, 2, 4)), int(SliceFrom(m.time, 4)))

\* error_detector.py:143-198
EdParseTimestamp(m, fmt, reference_year) ==
    CASE fmt = "iso" -> ParseIso(m)
      [] fmt = "syslog" -> ParseSyslog(m, reference_year)
      [] fmt = "kernel" -> EdParseKernel(m, reference_year)
      [] fmt = "vmlog" -> ParseCompact(m, reference_year)
      [] fmt = "chrome" -> ParseCompact(m, reference_year)
      [] OTHER -> Absent

\* error_detector.py:134-141  for pattern, fmt in TIMESTAMP_PATTERNS
RECURSIVE EdExtractFrom(_, _, _)
EdExtractFrom(line, k, reference_year) ==
    IF k > Len(EdTimestampPatterns) THEN Absent
    ELSE LET fmt == EdTimestampPatterns[k]
             match == Search(line, fmt)
         IN  IF match = <<>> THEN EdExtractFrom(line, k + 1, reference_year)
             ELSE LET parsed == EdParseTimestamp(match[1], fmt, reference_year)
                  IN  IF parsed = ValueError
                      THEN EdExtractFrom(line, k + 1, reference_year)
                      ELSE parsed

\* error_detector.py:124-141
EdExtractTimestamp(line, reference_year) == EdExtractFrom(line, 1, reference_year)

(***************************************************************************)
(* CrosEcParser._extract_timestamp / _parse_timestamp                      *)
(***************************************************************************)

\* cros_ec_parser.py:108-115
CeTimestampPatterns == <<"iso", "syslog", "kernel_uptime">>

\* The kind of stamp a format's pattern matches.
CeStampKind(fmt) == IF fmt = "kernel_uptime" THEN "kernel" ELSE fmt

\* cros_ec_parser.py:211-245; fromisoformat takes what strptime takes here
CeParseTimestamp(m, fmt, reference_year) ==
    CASE fmt = "kernel_uptime" -> Absent
      [] fmt = "syslog" -> ParseSyslog(m, reference_year)
      [] fmt = "iso" -> ParseIso(m)
      [] OTHER -> Absent

\* cros_ec_parser.py:202-209
RECURSIVE CeExtractFrom(_, _, _)
CeExtractFrom(line, k, reference_year) ==
    IF k > Len(CeTimestampPatterns) THEN Absent
    ELSE LET fmt == CeTimestampPatterns[k]
             match == Search(line, CeStampKind(fmt))
         IN  IF match = <<>> THEN CeExtractFrom(line, k + 1, reference_year)
             ELSE LET parsed == CeParseTimestamp(match[1], fmt, reference_year)
                  IN  IF parsed = ValueError
                      THEN CeExtractFrom(line, k + 1, reference_year)
                      ELSE parsed

\* cros_ec_parser.py:192-209
CeExtractTimestamp(line, reference_year) == CeExtractFrom(line, 1, reference_year)

(***************************************************************************)
(* VmlogParser._parse_timestamp                                            *)
(***************************************************************************)

\* vmlog_parser.py:189-193  the five fields cut out of MMDD and HHMMSS
VmlogFields_DayFirst(date_part, time_part) ==
    [month |-> int(SliceFrom(date_part, 2)), day |-> int(Slice(date_part, 0, 2)),
     hour |-> int(Slice(time_part, 0, 2)), minute |-> int(Slice(time_part, 2, 4)),
     second |-> int(SliceFrom(time_part, 4))]
VmlogFields(date_part, time_part) ==
    [month |-> int(Slice(date_part, 0, 2)), day |-> int(SliceFrom(date_part, 2)),
     hour |-> int(Slice(time_part, 0, 2)), minute |-> int(Slice(time_part, 2, 4)),
     second |-> int(SliceFrom(time_part, 4))]

\* vmlog_parser.py:171-198; TIMESTAMP_PATTERN.match looks at the start only
VmlogParseTimestamp(time_str, reference_year) ==
    IF time_str = <<>> \/ time_str[1].kind # "vmlog" THEN Absent
    ELSE LET f == VmlogFields(time_str[1].date, time_str[1].time)
             made == datetime(reference_year, f.month, f.day, f.hour, f.minute, f.second)
         IN  IF made = ValueError THEN Absent ELSE made

(***************************************************************************)
(* Timestamp extraction as the parsers are called                          *)
(***************************************************************************)
TsIdle ==
    /\ ts_pc = "idle"
    /\ ts_line = <<>>
    /\ ts_year_arg = None
    /\ ts_now_year = 0
    /\ ts_result = Absent

TsInit ==
    /\ ts_pc = "input"
    /\ ts_line \in Lines \cup VmlogTimeStrings
    /\ ts_year_arg \in YearArgs
    /\ ts_now_year \in NowYears
    /\ ts_result = Absent

\* error_detector.py:63, 105
ErrorDetectorExtract ==
    /\ ts_pc = "input"
    /\ ts_result' = EdExtractTimestamp(ts_line, ReferenceYear(ts_year_arg, ts_now_year))
    /\ ts_pc' = "ErrorDetector"
    /\ UNCHANGED <<ts_line, ts_year_arg, ts_now_year>>
    /\ UNCHANGED outsideTs

\* cros_ec_parser.py:131, 168
CrosEcExtract ==
    /\ ts_pc = "input"
    /\ ts_result' = CeExtractTimestamp(ts_line, ReferenceYear(ts_year_arg, ts_now_year))
    /\ ts_pc' = "CrosEcParser"
    /\ UNCHANGED <<ts_line, ts_year_arg, ts_now_year>>
    /\ UNCHANGED outsideTs

\* vmlog_parser.py:47, 133
VmlogParse ==
    /\ ts_pc = "input"
    /\ ts_result' = VmlogParseTimestamp(ts_line, ReferenceYear(ts_year_arg, ts_now_year))
    /\ ts_pc' = "VmlogParser"
    /\ UNCHANGED <<ts_line, ts_year_arg, ts_now_year>>
    /\ UNCHANGED outsideTs

TsNext == ErrorDetectorExtract \/ CrosEcExtract \/ VmlogParse

(***************************************************************************)
(* Event parsers.  A line is what the parsers look at in it:               *)
(*   stamps  the timestamp stamps it carries, in order (see above)         *)
(*   text    its stripped text: prefix is the part within the parser's     *)
(*           message limit, tail what lies beyond it ("" if nothing)       *)
(*   hits    the indices, in the parser's pattern table, of the patterns   *)
(*           that match it                                                 *)
(*   skip    whether one of CrosEcParser's skip patterns matches it        *)
(* SystemLogParser reads a line as "<iso stamp> LEVEL source[pid]: message"*)
(* and matches its table against the message; a line that does not begin   *)
(* with an ISO stamp is not in that format.                                *)
(***************************************************************************)
MaxLines == 2
MaxHits == 2

\* One (pattern, category, severity) triple, the pattern being its index.
Triple(category, severity) == [category |-> category, severity |-> severity]

\* error_detector.py:19-32
ERROR_PATTERNS ==
    << Triple("CRASH", 4), Triple("PANIC", 4), Triple("OOM", 4),
       Triple("KILLED", 4), Triple("FATAL", 4), Triple("ERROR", 3),
       Triple("FAILED", 3), Triple("TIMEOUT", 3), Triple("REFUSED", 3),
       Triple("DENIED", 3), Triple("WARNING", 2), Triple("CRITICAL", 4) >>

\* cros_ec_parser.py:27-99
EC_EVENT_PATTERNS ==
    << Triple("FAN_STALL", 4), Triple("POWER", 3), Triple("PD_STATE", 3),
       Triple("LID", 3), Triple("CHARGER", 3), Triple("CHARGER", 2),
       Triple("CHARGER", 3), Triple("USB_PD", 2), Triple("MOTION", 2),
       Triple("TCPC", 2), Triple("USB_CHARGE", 2), Triple("CHARGE_LIMIT", 2),
       Triple("THERMAL", 3), Triple("EC_WARN", 3), Triple("DP_MODE", 2),
       Triple("INIT", 1), Triple("BUTTON", 2), Triple("SENSOR_INIT", 1) >>

\* system_log_parser.py:44-139
LOG_PATTERNS ==
    [ messages |-> << Triple("USB", 2), Triple("POWER", 3), Triple("THERMAL", 3),
                      Triple("ERROR", 3) >>,
      net |-> << Triple("WIFI_CONNECT", 3), Triple("WIFI_DISCONNECT", 3),
                 Triple("WIFI_STATE", 2), Triple("WIFI_ROAM", 2),
                 Triple("WIFI_SIGNAL", 2), Triple("WIFI_SCAN", 1) >>,
      powerd |-> << Triple("LID", 3), Triple("POWER_BTN", 3), Triple("TABLET_MODE", 2),
                    Triple("SUSPEND", 3), Triple("BACKLIGHT", 1), Triple("BATTERY", 2),
                    Triple("CHARGING", 2), Triple("SHUTDOWN", 4) >>,
      typecd |-> << Triple("TYPEC_PARTNER", 3), Triple("TYPEC_CABLE", 3),
                    Triple("PD_VERSION", 2), Triple("TYPEC_MODE", 2),
                    Triple("ALT_MODE", 2), Triple("TYPEC_ID", 1) >>,
      bluetooth |-> << Triple("BT_CONNECT", 3), Triple("BT_PAIR", 3),
                       Triple("BT_MEDIA", 1), Triple("BT_PROFILE", 2),
                       Triple("BT_SCAN", 1) >>,
      ui |-> << Triple("TABLET_MODE", 2), Triple("LID", 2), Triple("POWER_BTN", 2),
                Triple("DISPLAY", 2), Triple("ERROR", 3) >>,
      chrome |-> << Triple("CHROME_ERROR", 3), Triple("CHROME_WARN", 2),
                    Triple("CAMERA", 2), Triple("GPU", 2), Triple("LOGIN", 2),
                    Triple("BATTERY", 2) >>,
      fwupd |-> << Triple("FW_BATTERY", 2), Triple("FW_POWER", 2),
                   Triple("FW_DEVICE", 2), Triple("FW_UPDATE", 3) >> ]

\* system_log_parser.py:151-177  what detect_log_type returns; "unknown"
\* stands for a log type that is not a key of LOG_PATTERNS
LogTypes == DOMAIN LOG_PATTERNS
Dialects == {"ErrorDetector", "CrosEcParser"} \cup LogTypes \cup {"unknown"}

\* The table a dialect's lines are matched against.
PatternTable(dialect) ==
    IF dialect = "ErrorDetector" THEN ERROR_PATTERNS
    ELSE IF dialect = "CrosEcParser" THEN EC_EVENT_PATTERNS
    ELSE IF dialect \in LogTypes THEN LOG_PATTERNS[dialect]
    ELSE <<>>

\* A text matched by the one pattern is matched by the other as well:
\* cros_ec_parser.py:29 "stalled", "fan stall" contain :81 "stall";
\* system_log_parser.py:76 "Shutdown from suspend" contains :72 "suspend".
Entails(dialect) ==
    IF dialect = "CrosEcParser" THEN {<<1, 14>>}
    ELSE IF dialect = "powerd" THEN {<<8, 4>>}
    ELSE {}

\* The sets of at most k of n patterns.
RECURSIVE PatternSets(_, _)
PatternSets(n, k) ==
    IF k = 0 THEN {{}}
    ELSE LET fewer == PatternSets(n, k - 1)
         IN  fewer \cup {h \cup {i} : h \in fewer, i \in 1..n}

\* The sets of patterns one line can match.
HitSets(dialect) ==
    {h \in PatternSets(Len(PatternTable(dialect)), MaxHits) :
        \A e \in Entails(dialect) : e[1] \in h => e[2] \in h}

\* Lines stamped with an absolute time, with seconds since boot, or not at all.
EvStamps == {<<>>, <<IsoStamp(2025, 10, 27, 15, 14, 47)>>, <<KernelStamp>>}

\* Texts that differ only beyond the message limit, and one that differs within it.
EvTexts ==
    { [prefix |-> "a", tail |-> ""], [prefix |-> "a", tail |-> "x"],
      [prefix |-> "a", tail |-> "y"], [prefix |-> "b", tail |-> ""] }

\* cros_ec_parser.py:134-135  only CrosEcParser has skip patterns
SkipChoices(dialect) == IF dialect = "CrosEcParser" THEN BOOLEAN ELSE {FALSE}

\* Two more absolute times: a second later, and minutes earlier.
OneLineStamps ==
    EvStamps \cup {<<IsoStamp(2025, 10, 27, 15, 14, 48)>>, <<IsoStamp(2025, 10, 27, 15, 10, 0)>>}

\* One line matching any feasible set of patterns.
OneLineContents(dialect) ==
    { << [stamps |-> s, text |-> [prefix |-> "a", tail |-> ""], hits |-> h, skip |-> k] >> :
        s \in OneLineStamps, h \in HitSets(dialect), k \in SkipChoices(dialect) }

\* Several lines, each matching no pattern or the table's first.
PlainLines(dialect) ==
    { [stamps |-> s, text |-> t, hits |-> h, skip |-> k] :
        s \in EvStamps, t \in EvTexts,
        h \in {g \in {{}, {1}} : g \subseteq 1..Len(PatternTable(dialect))},
        k \in SkipChoices(dialect) }

ManyLineContents(dialect) ==
    UNION {[1..n -> PlainLines(dialect)] : n \in 0..MaxLines}

\* system_log_parser.py:140  min_level (1-4, default 2)
MinLevels == 1..4

\* error_detector.py:55, cros_ec_parser.py:123  reference_year
EvYears == {2025}

\* line.strip()[:500] (error_detector.py:116), line.strip()[:200]
\* (cros_ec_parser.py:169, 185): the whole line, stamps included, cut at the limit
Cut(line) == [stamps |-> line.stamps, prefix |-> line.text.prefix, tail |-> ""]

\* system_log_parser.py:249  message[:100] + ('...' if len(message) > 100 else '')
CutWithEllipsis(line) ==
    [prefix |-> line.text.prefix, tail |-> IF line.text.tail = "" THEN "" ELSE "..."]

\* for pattern, ... in table: if pattern.search(line): ... break
\* (error_detector.py:103-104, cros_ec_parser.py:166-167); 0 when none matches
RECURSIVE FirstMatching(_, _, _)
FirstMatching(table, hits, k) ==
    IF k > Len(table) THEN 0
    ELSE IF k \in hits THEN k
    ELSE FirstMatching(table, hits, k + 1)

\* error_detector.py:212-214  _get_context: lines[start:end], as 1-based bounds
GetContext(lines, line_num, context_size) ==
    LET start == IF line_num - context_size > 1 THEN line_num - context_size ELSE 1
        end == IF line_num + context_size < Len(lines) THEN line_num + context_size
               ELSE Len(lines)
    IN  [start |-> start, end |-> end]

\* error_detector.py:55  context_lines
context_lines == 5

\* error_detector.py:99-120
RECURSIVE EdScanFrom(_, _, _, _)
EdScanFrom(lines, line_num, reference_year, errors) ==
    IF line_num > Len(lines) THEN errors
    ELSE LET line == lines[line_num]
             k == FirstMatching(ERROR_PATTERNS, line.hits, 1)
             error == [source |-> "log",
                       timestamp |-> EdExtractTimestamp(line.stamps, reference_year),
                       line_number |-> line_num,
                       severity |-> ERROR_PATTERNS[k].severity,
                       type |-> ERROR_PATTERNS[k].category,
                       message |-> Cut(line),
                       context |-> GetContext(lines, line_num, context_lines)]
         IN  EdScanFrom(lines, line_num + 1, reference_year,
                        IF k = 0 THEN errors ELSE Append(errors, error))

\* error_detector.py:87-122
scan_single_log(content, reference_year) == EdScanFrom(content, 1, reference_year, <<>>)

\* cros_ec_parser.py:156-160  should_skip: some skip pattern matches the line
ShouldSkip_Never(line) == FALSE
ShouldSkip(line) == line.skip

\* cros_ec_parser.py:151-188; seen_events holds (ts_str, message) pairs, the
\* ts_str 'none' of a line without timestamp being Absent here
RECURSIVE CeParseFrom(_, _, _, _, _)
CeParseFrom(lines, line_num, reference_year, events, seen_events) ==
    IF line_num > Len(lines) THEN events
    ELSE LET line == lines[line_num]
             k == FirstMatching(EC_EVENT_PATTERNS, line.hits, 1)
             timestamp == CeExtractTimestamp(line.stamps, reference_year)
             message == Cut(line)
             event_key == <<timestamp, message>>
             event == [source |-> "cros_ec.log",
                       timestamp |-> timestamp,
                       line_number |-> line_num,
                       type |-> EC_EVENT_PATTERNS[k].category,
                       level |-> EC_EVENT_PATTERNS[k].severity,
                       message |-> message]
         IN  IF ShouldSkip(line) \/ k = 0 \/ event_key \in seen_events
             THEN CeParseFrom(lines, line_num + 1, reference_year, events, seen_events)
             ELSE CeParseFrom(lines, line_num + 1, reference_year,
                              Append(events, event), seen_events \cup {event_key})

\* cros_ec_parser.py:137-190
CeParseContent(content, reference_year) == CeParseFrom(content, 1, reference_year, <<>>, {})

\* system_log_parser.py:194-225, 179-192  parse_line: the timestamp of a line
\* in the format, Absent for any other line
SlParseLine(line) ==
    IF line.stamps = <<>> \/ line.stamps[1].kind # "iso" THEN Absent
    ELSE LET timestamp == ParseIso(line.stamps[1])
         IN  IF timestamp = ValueError THEN Absent ELSE timestamp

\* system_log_parser.py:237-242  the loop over log_config['patterns'];
\* 0 when it ends without a return
RECURSIVE SlFirstMatching(_, _, _, _)
SlFirstMatching(patterns, hits, min_level, k) ==
    IF k > Len(patterns) THEN 0
    ELSE IF patterns[k].severity < min_level THEN SlFirstMatching(patterns, hits, min_level, k + 1)
    ELSE IF k \in hits THEN k
    ELSE SlFirstMatching(patterns, hits, min_level, k + 1)

\* system_log_parser.py:227-255  Absent for the None it returns
categorize_event(line, timestamp, log_type, min_level) ==
    IF log_type \notin LogTypes THEN Absent
    ELSE LET patterns == LOG_PATTERNS[log_type]
             k == SlFirstMatching(patterns, line.hits, min_level, 1)
         IN  IF k = 0 THEN Absent
             ELSE [timestamp |-> timestamp,
                   log_type |-> log_type,
                   category |-> patterns[k].category,
                   level |-> patterns[k].severity,
                   message |-> CutWithEllipsis(line),
                   raw_line |-> line]

\* system_log_parser.py:271-285
RECURSIVE SlParseFrom(_, _, _, _, _, _)
SlParseFrom(lines, i, log_type, min_level, events, seen_events) ==
    IF i > Len(lines) THEN events
    ELSE LET parsed == SlParseLine(lines[i])
             event == categorize_event(lines[i], parsed, log_type, min_level)
             event_key == <<event.timestamp, event.message>>
         IN  IF parsed = Absent \/ event = Absent \/ event_key \in seen_events
             THEN SlParseFrom(lines, i + 1, log_type, min_level, events, seen_events)
             ELSE SlParseFrom(lines, i + 1, log_type, min_level,
                              Append(events, event), seen_events \cup {event_key})

\* system_log_parser.py:257-287
SlParseContent(content, log_type, min_level) ==
    SlParseFrom(content, 1, log_type, min_level, <<>>, {})

(***************************************************************************)
(* ErrorDetector.map_to_vmlog_timeline                                     *)
(***************************************************************************)
MaxSamples == 2

\* datetime arithmetic: date.toordinal(), and the seconds from the first
\* instant of the reference year to a datetime, by which datetimes are
\* compared and subtracted (differences do not depend on the origin; the
\* origin keeps the numbers of this century within 32 bits).
RECURSIVE DaysBeforeMonth(_, _)
DaysBeforeMonth(y, mo) ==
    IF mo = 1 THEN 0 ELSE DaysBeforeMonth(y, mo - 1) + DaysInMonth(y, mo - 1)

ToOrdinal(y, mo, d) ==
    365 * (y - 1) + ((y - 1) \div 4) - ((y - 1) \div 100) + ((y - 1) \div 400)
        + DaysBeforeMonth(y, mo) + d

TotalSeconds(dt) ==
    (ToOrdinal(dt.year, dt.month, dt.day) - ToOrdinal(2025, 1, 1)) * 86400
        + dt.hour * 3600 + dt.minute * 60 + dt.second

\* The timestamps of vmlog samples around the time the event lines carry;
\* Absent for an entry without 'timestamp'.
SampleTimes == {datetime(2025, 10, 27, 15, 14, s) : s \in {45, 49}}

\* main.py:583  all_vmlog_data.sort(key=lambda x: x.get('timestamp', datetime.min)):
\* an entry without timestamp sorts as datetime.min, before every other
InSortOrder(a, b) ==
    \/ a.timestamp = Absent
    \/ b.timestamp # Absent /\ TotalSeconds(a.timestamp) <= TotalSeconds(b.timestamp)

VmlogDataChoices ==
    {d \in UNION {[1..n -> [timestamp : SampleTimes \cup {Absent}]] : n \in 0..MaxSamples} :
        \A i \in 1..Len(d) - 1 : InSortOrder(d[i], d[i + 1])}

\* error_detector.py:231  [entry['timestamp'] for entry in vmlog_data if entry.get('timestamp')]
RECURSIVE TimestampsOf(_)
TimestampsOf(vmlog_data) ==
    IF vmlog_data = <<>> THEN <<>>
    ELSE (IF Head(vmlog_data).timestamp = Absent THEN <<>>
          ELSE <<Head(vmlog_data).timestamp>>) \o TimestampsOf(Tail(vmlog_data))

\* error_detector.py:238-239  the two fields set on the error
Enriched_FirstSample(error, idx, vmlog_timestamps) ==
    [vmlog_index |-> idx, vmlog_timestamp |-> vmlog_timestamps[1]] @@ error
Enriched(error, idx, vmlog_timestamps) ==
    [vmlog_index |-> idx, vmlog_timestamp |-> vmlog_timestamps[idx + 1]] @@ error

\* error_detector.py:233-239  the body of `for error in errors`
MapError(error, vmlog_timestamps) ==
    IF error.timestamp = Absent THEN error
    ELSE LET idx == find_nearest_timestamp(
                        [k \in 1..Len(vmlog_timestamps) |-> TotalSeconds(vmlog_timestamps[k])],
                        TotalSeconds(error.timestamp))
         IN  IF idx = None THEN error
             ELSE Enriched(error, idx, vmlog_timestamps)

\* error_detector.py:216-241
map_to_vmlog_timeline(errors, vmlog_data) ==
    IF vmlog_data = <<>> THEN errors
    ELSE [i \in 1..Len(errors) |-> MapError(errors[i], TimestampsOf(vmlog_data))]

(***************************************************************************)
(* main: the errors of one segment's chart                                 *)
(***************************************************************************)
\* main.py:609  buffer = timedelta(seconds=30)
buffer == 30

\* main.py:601-602  seg_info['start_time'], seg_info['end_time']: a segment
\* around the time the event lines carry, and segments that begin or end
\* 30 and 31 seconds from it.
SegmentChoices ==
    { [start_time |-> datetime(2025, 10, 27, 15, 14, 47), end_time |-> datetime(2025, 10, 27, 15, 14, 51)],
      [start_time |-> datetime(2025, 10, 27, 15, 15, 17), end_time |-> datetime(2025, 10, 27, 15, 15, 20)],
      [start_time |-> datetime(2025, 10, 27, 15, 15, 18), end_time |-> datetime(2025, 10, 27, 15, 15, 20)],
      [start_time |-> datetime(2025, 10, 27, 15, 14, 10), end_time |-> datetime(2025, 10, 27, 15, 14, 17)],
      [start_time |-> datetime(2025, 10, 27, 15, 14, 10), end_time |-> datetime(2025, 10, 27, 15, 14, 16)] }

\* main.py:614  seg_start - buffer <= e['timestamp'] <= seg_end + buffer
InWindow_Exclusive(timestamp, seg_start, seg_end) ==
    /\ TotalSeconds(seg_start) - buffer < TotalSeconds(timestamp)
    /\ TotalSeconds(timestamp) < TotalSeconds(seg_end) + buffer
InWindow(timestamp, seg_start, seg_end) ==
    /\ TotalSeconds(seg_start) - buffer <= TotalSeconds(timestamp)
    /\ TotalSeconds(timestamp) <= TotalSeconds(seg_end) + buffer

\* main.py:612-614  the condition of the list comprehension
KeptForSegment(e, seg_start, seg_end) ==
    /\ e.severity >= 3
    /\ e.timestamp # Absent
    /\ InWindow(e.timestamp, seg_start, seg_end)

\* main.py:610-615
RECURSIVE segment_errors(_, _, _)
segment_errors(errors, seg_start, seg_end) ==
    IF errors = <<>> THEN <<>>
    ELSE (IF KeptForSegment(Head(errors), seg_start, seg_end) THEN <<Head(errors)>> ELSE <<>>)
         \o segment_errors(Tail(errors), seg_start, seg_end)

(***************************************************************************)
(* The event parsers as they are called                                    *)
(***************************************************************************)
EvIdle ==
    /\ ev_pc = "idle"
    /\ ev_dialect = "ErrorDetector"
    /\ ev_min_level = None
    /\ ev_reference_year = 0
    /\ ev_content = <<>>
    /\ ev_events = <<>>
    /\ ev_vmlog_data = <<>>
    /\ ev_segment = Absent
    /\ ev_segment_errors = <<>>

EvInit ==
    /\ ev_pc = "input"
    /\ ev_dialect \in Dialects
    /\ ev_min_level \in (IF ev_dialect \in {"ErrorDetector", "CrosEcParser"}
                         THEN {None} ELSE MinLevels)
    /\ ev_reference_year \in EvYears
    /\ ev_content \in OneLineContents(ev_dialect) \cup ManyLineContents(ev_dialect)
    /\ ev_events = <<>>
    /\ ev_vmlog_data = <<>>
    /\ ev_segment = Absent
    /\ ev_segment_errors = <<>>

\* error_detector.py:87-122
ErrorDetectorScan ==
    /\ ev_pc = "input"
    /\ ev_dialect = "ErrorDetector"
    /\ ev_events' = scan_single_log(ev_content, ev_reference_year)
    /\ ev_pc' = "done"
    /\ UNCHANGED <<ev_dialect, ev_min_level, ev_reference_year, ev_content, ev_vmlog_data,
                   ev_segment, ev_segment_errors>>
    /\ UNCHANGED outsideEv

\* cros_ec_parser.py:137-190
CrosEcParseContent ==
    /\ ev_pc = "input"
    /\ ev_dialect = "CrosEcParser"
    /\ ev_events' = CeParseContent(ev_content, ev_reference_year)
    /\ ev_pc' = "done"
    /\ UNCHANGED <<ev_dialect, ev_min_level, ev_reference_year, ev_content, ev_vmlog_data,
                   ev_segment, ev_segment_errors>>
    /\ UNCHANGED outsideEv

\* system_log_parser.py:257-287
SystemLogParseContent ==
    /\ ev_pc = "input"
    /\ ev_dialect \notin {"ErrorDetector", "CrosEcParser"}
    /\ ev_events' = SlParseContent(ev_content, ev_dialect, ev_min_level)
    /\ ev_pc' = "done"
    /\ UNCHANGED <<ev_dialect, ev_min_level, ev_reference_year, ev_content, ev_vmlog_data,
                   ev_segment, ev_segment_errors>>
    /\ UNCHANGED outsideEv

\* main.py:585  errors = error_detector.map_to_vmlog_timeline(errors, all_vmlog_data);
\* the errors are enriched in place
MapToVmlogTimeline ==
    /\ ev_pc = "done"
    /\ ev_dialect = "ErrorDetector"
    /\ \E vmlog_data \in VmlogDataChoices :
          /\ ev_vmlog_data' = vmlog_data
          /\ ev_events' = map_to_vmlog_timeline(ev_events, vmlog_data)
    /\ ev_pc' = "mapped"
    /\ UNCHANGED <<ev_dialect, ev_min_level, ev_reference_year, ev_content,
                   ev_segment, ev_segment_errors>>
    /\ UNCHANGED outsideEv

\* main.py:598-615  one segment's chart: the errors filtered to its time range
FilterSegmentErrors ==
    /\ ev_pc = "mapped"
    /\ \E segment \in SegmentChoices :
          /\ ev_segment' = segment
          /\ ev_segment_errors' = segment_errors(ev_events, segment.start_time, segment.end_time)
    /\ ev_pc' = "filtered"
    /\ UNCHANGED <<ev_dialect, ev_min_level, ev_reference_year, ev_content, ev_events,
                   ev_vmlog_data>>
    /\ UNCHANGED outsideEv

EvNext ==
    \/ ErrorDetectorScan
    \/ CrosEcParseContent
    \/ SystemLogParseContent
    \/ MapToVmlogTimeline
    \/ FilterSegmentErrors

(***************************************************************************)
(* VmlogParser.parse_content.  A stripped line is                          *)
(*   first  how it begins: with the word "time", with a bracketed          *)
(*          [dddd/dddddd] stamp, with other text ("text": free text, or a  *)
(*          stamp that is not at the start), or not at all ("blank")       *)
(*   sep    the whitespace after that first token: " ", "tab", "" if the   *)
(*          line ends there                                                *)
(*   rest   the whitespace-separated tokens that follow: column names in   *)
(*          a header, value tokens in a data line                          *)
(* A token is its text where it is a word, and the kind of literal it is   *)
(* and the number it spells where it is one.                               *)
(* Numbers are kept in thousandths, so that 0.02 and kHz / 1000 are        *)
(* integers: 700000 is 700000000 thousandths, 0.02 is 20.                  *)
(***************************************************************************)
MaxVmlogLines == 3

\* vmlog_parser.py:27-31
DEFAULT_COLUMNS ==
    << "time", "pgmajfault", "pgmajfault_f", "pgmajfault_a", "pswpin", "pswpout",
       "cpuusage", "cpufreq0", "cpufreq1", "cpufreq2", "cpufreq3" >>

\* vmlog_parser.py:37
CPUFREQ_COLUMNS == {"cpufreq0", "cpufreq1", "cpufreq2", "cpufreq3"}

\* Tokens: an integer literal, a literal with a fraction, a word.
IntToken(n) == [lit |-> "int", thousandths |-> n * 1000, text |-> ""]
FloatToken(thousandths) == [lit |-> "float", thousandths |-> thousandths, text |-> ""]
WordToken(word) == [lit |-> "word", thousandths |-> 0, text |-> word]
BadToken == WordToken("x")

\* tests/fixtures.py:11  [1027/151447] 0 0 0 0 0 0.02 700000 700000 698611 1263820
FixtureTokens ==
    << IntToken(0), IntToken(0), IntToken(0), IntToken(0), IntToken(0), FloatToken(20),
       IntToken(700000), IntToken(700000), IntToken(698611), IntToken(1263820) >>

\* The tokens of a data line: all there, none, fewer than columns, one that
\* is no number among good ones, and a fraction where an integer is read.
TokenSeqs ==
    { FixtureTokens, <<>>, <<FloatToken(500), IntToken(700000)>>,
      <<BadToken, IntToken(700000)>>, <<IntToken(5), BadToken, IntToken(7)>> }

\* The column names a header declares after "time".
HeaderColumns ==
    { <<WordToken("cpuusage"), WordToken("cpufreq0")>>,
      <<WordToken("pgmajfault"), WordToken("pswpin"), WordToken("cpuusage")>> }

VmlogLine(kind, stamp, sep, rest) ==
    [first |-> [kind |-> kind, stamp |-> stamp], sep |-> sep, rest |-> rest]

\* Headers separated by blanks and by tabs, the word "time" alone, data
\* lines with a good stamp, with another, with digits that are no date,
\* free text and an empty line.
VmlogLines ==
    {VmlogLine("time", <<>>, " ", c) : c \in HeaderColumns}
    \cup {VmlogLine("time", <<>>, "tab", <<WordToken("cpuusage"), WordToken("cpufreq0")>>), VmlogLine("time", <<>>, "", <<>>)}
    \cup {VmlogLine("stamp", <<VmlogStamp(10, 27, 15, 14, 47)>>, IF t = <<>> THEN "" ELSE " ", t) :
             t \in TokenSeqs}
    \cup {VmlogLine("stamp", <<VmlogStamp(10, 27, 15, 14, 46)>>, " ", <<IntToken(5), BadToken, IntToken(7)>>),
          VmlogLine("stamp", <<VmlogStamp(13, 27, 15, 14, 47)>>, " ", <<IntToken(5), BadToken, IntToken(7)>>),
          VmlogLine("text", <<>>, " ", <<IntToken(5)>>),
          VmlogLine("blank", <<>>, "", <<>>)}

VmlogContents == UNION {[1..n -> VmlogLines] : n \in 0..MaxVmlogLines}

\* vmlog_parser.py:39  convert_freq_to_mhz as given to the constructor
ConvertArgs == {"default", "True", "False"}

\* vmlog_parser.py:39, 49  convert_freq_to_mhz: bool = True
ConvertFreqToMhz(arg) == arg = "default" \/ arg = "True"

\* vmlog_parser.py:100-102  line.strip().startswith('time ')
IsHeaderLine(line) == line.first.kind = "time" /\ line.sep = " "

\* vmlog_parser.py:104-114  line.strip().split()
ParseHeader(line) == <<"time">> \o [i \in 1..Len(line.rest) |-> line.rest[i].text]

\* int(values[i]), float(values[i]): whether they return, and what
IntParses(token) == token.lit = "int"
FloatParses(token) == token.lit \in {"int", "float"}

\* vmlog_parser.py:149-165  the value stored for a column, 0 on ValueError
ColumnValue_ZeroAll(col, token, convert) == 0
ColumnValue(col, token, convert) ==
    IF col = "cpuusage"
    THEN (IF FloatParses(token) THEN token.thousandths ELSE 0)
    ELSE IF col \in CPUFREQ_COLUMNS
    THEN (IF ~IntParses(token) THEN 0
          ELSE IF convert THEN token.thousandths \div 1000
          ELSE token.thousandths)
    ELSE (IF IntParses(token) THEN token.thousandths ELSE 0)

\* vmlog_parser.py:145  value_columns = [c for c in columns if c != 'time']
RECURSIVE ValueColumns(_)
ValueColumns(columns) ==
    IF columns = <<>> THEN <<>>
    ELSE (IF Head(columns) = "time" THEN <<>> ELSE <<Head(columns)>>)
         \o ValueColumns(Tail(columns))

\* vmlog_parser.py:147-167  for i, col in enumerate(value_columns): result[col] = ...
RECURSIVE AssignColumns(_, _, _, _, _)
AssignColumns(result, value_columns, values, i, convert) ==
    IF i > Len(value_columns) THEN result
    ELSE LET col == value_columns[i]
             value == IF i <= Len(values) THEN ColumnValue(col, values[i], convert) ELSE 0
         IN  AssignColumns((col :> value) @@ result, value_columns, values, i + 1, convert)

\* vmlog_parser.py:116-169  Absent for the None it returns
VmParseLine(line, columns, reference_year, convert) ==
    IF line.first.kind # "stamp" THEN Absent
    ELSE LET timestamp == VmlogParseTimestamp(line.first.stamp, reference_year)
         IN  IF timestamp = Absent THEN Absent
             ELSE AssignColumns([timestamp |-> timestamp, timestamp_raw |-> line.first.stamp],
                                ValueColumns(columns), line.rest, 1, convert)

\* vmlog_parser.py:96  entries.append(entry)
KeepEntry_AtFront(parsed, entry) == <<entry>> \o parsed
KeepEntry(parsed, entry) == Append(parsed, entry)

\* vmlog_parser.py:82-96
RECURSIVE VmParseFrom(_, _, _, _, _, _)
VmParseFrom(lines, i, columns, parsed, reference_year, convert) ==
    IF i > Len(lines) THEN parsed
    ELSE LET line == lines[i]
             entry == VmParseLine(line, columns, reference_year, convert)
         IN  IF line.first.kind = "blank"
             THEN VmParseFrom(lines, i + 1, columns, parsed, reference_year, convert)
             ELSE IF IsHeaderLine(line)
             THEN VmParseFrom(lines, i + 1, ParseHeader(line), parsed, reference_year, convert)
             ELSE VmParseFrom(lines, i + 1, columns,
                              IF entry = Absent THEN parsed ELSE KeepEntry(parsed, entry),
                              reference_year, convert)

\* vmlog_parser.py:65-98
VmParseContent(content, reference_year, convert) ==
    VmParseFrom(content, 1, DEFAULT_COLUMNS, <<>>, reference_year, convert)

VmIdle ==
    /\ vm_pc = "idle"
    /\ vm_content = <<>>
    /\ vm_convert_arg = "default"
    /\ vm_reference_year = 0
    /\ vm_entries = <<>>

VmInit ==
    /\ vm_pc = "input"
    /\ vm_content \in VmlogContents
    /\ vm_convert_arg \in ConvertArgs
    /\ vm_reference_year \in EvYears
    /\ vm_entries = <<>>

\* vmlog_parser.py:65-98
VmlogParseContent ==
    /\ vm_pc = "input"
    /\ vm_entries' = VmParseContent(vm_content, vm_reference_year, ConvertFreqToMhz(vm_convert_arg))
    /\ vm_pc' = "done"
    /\ UNCHANGED <<vm_content, vm_convert_arg, vm_reference_year>>
    /\ UNCHANGED outsideVm

VmNext == VmlogParseContent

(***************************************************************************)
(* MetricsAnalyzer.detect_spikes.  Metric values are in thousandths, as    *)
(* VmlogParser's are above; a sample is the record of the metrics it       *)
(* carries.  The mean of n values of sum S is the pair <<S, n>>; with      *)
(* d = n * value - S, the deviation |value - mean| / stdev is kept as its  *)
(* square d^2 * (n - 1) / sum of all d_i^2, a pair as well.  The           *)
(* arithmetic is exact where the program's is floating point.              *)
(***************************************************************************)
MaxSeries == 11

\* The values of a series are at the level 50, or one of three off it.
OffValues == {20, 45, 90}

\* A sample carrying cpuusage, and one from a vocabulary without it.
Sample(i, value) == [timestamp |-> i, cpuusage |-> value]
SampleWithout(i) == [timestamp |-> i]

\* Series at the base level but for at most two samples, which are off it
\* or do not carry the metric.
FlatSeries(n, p, q, vp, vq) ==
    [i \in 1..n |->
        IF i = p THEN (IF vp = None THEN SampleWithout(i) ELSE Sample(i, vp))
        ELSE IF i = q THEN (IF vq = None THEN SampleWithout(i) ELSE Sample(i, vq))
        ELSE Sample(i, 50)]

SeriesLengths == {0, 5, 9, 10, MaxSeries}

\* tests/fixtures.py:10-16  the cpuusage column of SAMPLE_VMLOG
FixtureSeries == [i \in 1..5 |-> Sample(i, <<20, 50, 150, 80, 250>>[i])]

FlatSeriesChoices ==
    {FlatSeries(n, p, q, vp, vq) :
        n \in SeriesLengths, p \in {1, 9}, q \in {3, 10},
        vp \in OffValues \cup {50, None}, vq \in OffValues \cup {50, None}}

\* The fixture, the flat series, and the shorter ones behind a sample that
\* does not carry the metric.
SeriesChoices ==
    {FixtureSeries}
    \cup FlatSeriesChoices
    \cup {<<SampleWithout(0)>> \o series :
             series \in {f \in FlatSeriesChoices : Len(f) < MaxSeries}}

\* metrics_analyzer.py:27  spike_threshold: 0, 1, the 1.5 of the tests, the default 2.0
ThresholdChoices == {<<0, 1>>, <<1, 1>>, <<3, 2>>, <<2, 1>>}

\* metrics_analyzer.py:98-100  (i, entry.get(metric), entry.get('timestamp'))
\* for the entries whose entry.get(metric) is not None; i counts from 0
RECURSIVE MetricValues(_, _, _)
MetricValues(vmlog_data, metric, i) ==
    IF i > Len(vmlog_data) THEN <<>>
    ELSE (IF metric \in DOMAIN vmlog_data[i]
          THEN <<[idx |-> i - 1, value |-> vmlog_data[i][metric],
                  timestamp |-> vmlog_data[i].timestamp]>>
          ELSE <<>>) \o MetricValues(vmlog_data, metric, i + 1)

\* metrics_analyzer.py:102  if len(values) < 10: return []
TooFewSamples_Two(values) == Len(values) < 2
TooFewSamples(values) == Len(values) < 10

\* metrics_analyzer.py:107  statistics.mean: the sum, over the count
RECURSIVE SumOf(_)
SumOf(values) == IF values = <<>> THEN 0 ELSE Head(values).value + SumOf(Tail(values))

\* metrics_analyzer.py:108  statistics.stdev: the sum of the squared deviations from the mean, each
\* deviation taken n-fold (n * value - sum).
RECURSIVE SumSquares(_, _, _)
SumSquares(values, n, total) ==
    IF values = <<>> THEN 0
    ELSE (n * Head(values).value - total) * (n * Head(values).value - total)
         + SumSquares(Tail(values), n, total)

\* metrics_analyzer.py:113-114, 118  value > mean + k * stdev (d > 0) and
\* value < mean - k * stdev (d < 0), for k = kn / kd >= 0:
\* |d| / n > k * sqrt(squares / (n * n * (n - 1)))
BeyondThreshold(d, n, squares, k) ==
    d * d * (n - 1) * k[2] * k[2] > k[1] * k[1] * squares

\* metrics_analyzer.py:119-127
Spike(v, n, total, squares) ==
    LET d == n * v.value - total
    IN  [index |-> v.idx, timestamp |-> v.timestamp, metric |-> "cpuusage",
         value |-> v.value, mean |-> <<total, n>>,
         deviation |-> <<d * d * (n - 1), squares>>,
         direction |-> IF d > 0 THEN "high" ELSE "low"]

\* metrics_analyzer.py:117-127
RECURSIVE SpikesAmong(_, _, _, _, _)
SpikesAmong(values, n, total, squares, k) ==
    IF values = <<>> THEN <<>>
    ELSE LET v == Head(values)
             d == n * v.value - total
         IN  (IF d # 0 /\ BeyondThreshold(d, n, squares, k)
              THEN <<Spike(v, n, total, squares)>> ELSE <<>>)
             \o SpikesAmong(Tail(values), n, total, squares, k)

\* metrics_analyzer.py:87-129
detect_spikes(vmlog_data, metric, k) ==
    LET values == MetricValues(vmlog_data, metric, 1)
        n == Len(values)
        total == SumOf(values)
        squares == SumSquares(values, n, total)
    IN  IF TooFewSamples(values) THEN <<>>
        ELSE IF squares = 0 THEN <<>>
        ELSE SpikesAmong(values, n, total, squares, k)

SpIdle ==
    /\ sp_pc = "idle"
    /\ sp_vmlog_data = <<>>
    /\ sp_threshold = <<0, 1>>
    /\ sp_spikes = <<>>

SpInit ==
    /\ sp_pc = "input"
    /\ sp_vmlog_data \in SeriesChoices
    /\ sp_threshold \in ThresholdChoices
    /\ sp_spikes = <<>>

\* metrics_analyzer.py:87-129
DetectSpikes ==
    /\ sp_pc = "input"
    /\ sp_spikes' = detect_spikes(sp_vmlog_data, "cpuusage", sp_threshold)
    /\ sp_pc' = "done"
    /\ UNCHANGED <<sp_vmlog_data, sp_threshold>>
    /\ UNCHANGED outsideSp

SpNext == DetectSpikes

(***************************************************************************)
(* MetricsAnalyzer: calculate_stats and the detectors, called in any order *)
(* on one list of samples.  Metric values are integers (cpuusage in        *)
(* thousandths).  As for the spikes, a mean is the pair <<sum, n>> and a   *)
(* stdev is kept as its square, the pair <<sum of (n * value - sum)^2,     *)
(* n * n * (n - 1)>>; a median is <<value, 1>> or <<sum of the two middle  *)
(* values, 2>>, a change_pct the pair <<100 * |curr - prev|, prev>>.  The  *)
(* 'description' of a metric's statistics, a constant text, is left out.   *)
(***************************************************************************)
MaxAnSamples == 4

\* metrics_analyzer.py:14-25
METRIC_DEFINITIONS ==
    << [metric |-> "cpuusage", unit |-> "%"],
       [metric |-> "pgmajfault", unit |-> "count"],
       [metric |-> "pgmajfault_f", unit |-> "count"],
       [metric |-> "pgmajfault_a", unit |-> "count"],
       [metric |-> "pswpin", unit |-> "pages"],
       [metric |-> "pswpout", unit |-> "pages"],
       [metric |-> "cpufreq0", unit |-> "kHz"],
       [metric |-> "cpufreq1", unit |-> "kHz"],
       [metric |-> "cpufreq2", unit |-> "kHz"],
       [metric |-> "cpufreq3", unit |-> "kHz"] >>

\* metrics_analyzer.py:161
freq_metrics == <<"cpufreq0", "cpufreq1", "cpufreq2", "cpufreq3">>

\* The samples of the short lists: a quiet one, one half as fast again with
\* swap-in and a burst of faults (the only one that tells the file faults), one a step faster with swap-out and faults
\* just below the burst, a slow one with a stopped core, and one of a
\* vocabulary without any of the metrics.
SampleKinds == {"quiet", "busy", "edge", "slow", "bare"}

AnSample(i, kind) ==
    IF kind = "quiet" THEN
        [timestamp |-> i, cpuusage |-> 50, pgmajfault |-> 0, pswpin |-> 0, pswpout |-> 0,
         cpufreq0 |-> 1000, cpufreq1 |-> 1000]
    ELSE IF kind = "busy" THEN
        [timestamp |-> i, cpuusage |-> 250, pgmajfault |-> 100, pgmajfault_f |-> 7,
         pswpin |-> 1, pswpout |-> 0, cpufreq0 |-> 1500, cpufreq1 |-> 1000]
    ELSE IF kind = "edge" THEN
        [timestamp |-> i, cpuusage |-> 20, pgmajfault |-> 99, pswpin |-> 0, pswpout |-> 2,
         cpufreq0 |-> 1501, cpufreq1 |-> 400]
    ELSE IF kind = "slow" THEN
        [timestamp |-> i, cpuusage |-> 80, pgmajfault |-> 5, pswpin |-> 0, pswpout |-> 0,
         cpufreq0 |-> 400, cpufreq1 |-> 0]
    ELSE [timestamp |-> i]

ShortLists ==
    {[i \in 1..Len(kinds) |-> AnSample(i, kinds[i])] :
        kinds \in UNION {[1..n -> SampleKinds] : n \in 0..MaxAnSamples}}

\* The short lists, the fixture, and the flat series long enough for spikes.
AnalyzerInputs ==
    ShortLists \cup {FixtureSeries} \cup {f \in FlatSeriesChoices : Len(f) >= 10}

\* spike_threshold (metrics_analyzer.py:27) and the threshold of
\* detect_page_fault_bursts (:212, the default 100, the 5 of the tests)
AnalyzerThresholds ==
    { [spike |-> <<2, 1>>, fault |-> 100], [spike |-> <<3, 2>>, fault |-> 5] }

\* entry.get(metric, default)
Get(entry, metric, default) ==
    IF metric \in DOMAIN entry THEN entry[metric] ELSE default

\* sorted(values)
RECURSIVE InsertSorted(_, _)
InsertSorted(sorted, x) ==
    IF sorted = <<>> THEN <<x>>
    ELSE IF x < Head(sorted) THEN <<x>> \o sorted
    ELSE <<Head(sorted)>> \o InsertSorted(Tail(sorted), x)

RECURSIVE SortedValues(_)
SortedValues(values) ==
    IF values = <<>> THEN <<>>
    ELSE InsertSorted(SortedValues(Tail(values)), Head(values).value)

\* metrics_analyzer.py:64-69  stdev and median
Spread(values, sorted) ==
    LET n == Len(values)
        total == SumOf(values)
    IN  IF n >= 2
        THEN [stdev |-> <<SumSquares(values, n, total), n * n * (n - 1)>>,
              median |-> IF n % 2 = 1 THEN <<sorted[(n \div 2) + 1], 1>>
                         ELSE <<sorted[n \div 2] + sorted[(n \div 2) + 1], 2>>]
        ELSE [stdev |-> <<0, 1>>, median |-> <<values[1].value, 1>>]

\* metrics_analyzer.py:71  if len(values) >= 4
HasPercentiles_Always(n) == n >= 1
HasPercentiles(n) == n >= 4

\* metrics_analyzer.py:72-77  sorted_values[n // 4], [3 * n // 4],
\* [int(n * 0.9)], [int(n * 0.99)]; the sequence counts from 1
Percentiles(sorted) ==
    LET n == Len(sorted)
    IN  [p25 |-> sorted[(n \div 4) + 1],
         p75 |-> sorted[((3 * n) \div 4) + 1],
         p90 |-> sorted[((9 * n) \div 10) + 1],
         p99 |-> sorted[((99 * n) \div 100) + 1]]

\* metrics_analyzer.py:53-83  the statistics of one metric
MetricStats(vmlog_data, definition) ==
    LET values == MetricValues(vmlog_data, definition.metric, 1)
        sorted == SortedValues(values)
        n == Len(values)
        metric_stats == [metric |-> definition.metric,
                         count |-> n,
                         min |-> sorted[1],
                         max |-> sorted[n],
                         mean |-> <<SumOf(values), n>>,
                         unit |-> definition.unit]
                        @@ Spread(values, sorted)
    IN  IF n = 0 THEN <<>>
        ELSE IF HasPercentiles(n) THEN <<metric_stats @@ Percentiles(sorted)>>
        ELSE <<metric_stats>>

\* metrics_analyzer.py:52-83  for metric in metrics
RECURSIVE StatsFrom(_, _)
StatsFrom(vmlog_data, m) ==
    IF m > Len(METRIC_DEFINITIONS) THEN <<>>
    ELSE MetricStats(vmlog_data, METRIC_DEFINITIONS[m]) \o StatsFrom(vmlog_data, m + 1)

\* metrics_analyzer.py:36-85  the dict, in the order its keys were set
calculate_stats(vmlog_data) ==
    IF vmlog_data = <<>> THEN <<>> ELSE StatsFrom(vmlog_data, 1)

\* metrics_analyzer.py:172-173  abs(curr_val - prev_val) / prev_val > 0.5
ExceedsHalf_OrEqual(difference, prev_val) == 2 * difference >= prev_val
ExceedsHalf(difference, prev_val) == 2 * difference > prev_val

\* metrics_analyzer.py:167-181  for metric in freq_metrics (i counts from 0)
RECURSIVE ChangesAt(_, _, _)
ChangesAt(vmlog_data, i, m) ==
    IF m > Len(freq_metrics) THEN <<>>
    ELSE LET metric == freq_metrics[m]
             prev_val == Get(vmlog_data[i], metric, 0)
             curr_val == Get(vmlog_data[i + 1], metric, 0)
             difference == IF curr_val >= prev_val THEN curr_val - prev_val
                           ELSE prev_val - curr_val
         IN  (IF prev_val > 0 /\ ExceedsHalf(difference, prev_val)
              THEN << [index |-> i, timestamp |-> Get(vmlog_data[i + 1], "timestamp", None),
                       metric |-> metric, from_value |-> prev_val, to_value |-> curr_val,
                       change_pct |-> <<100 * difference, prev_val>>] >>
              ELSE <<>>) \o ChangesAt(vmlog_data, i, m + 1)

\* metrics_analyzer.py:163-181  for i in range(1, len(vmlog_data))
RECURSIVE ChangesFrom(_, _)
ChangesFrom(vmlog_data, i) ==
    IF i >= Len(vmlog_data) THEN <<>>
    ELSE ChangesAt(vmlog_data, i, 1) \o ChangesFrom(vmlog_data, i + 1)

\* metrics_analyzer.py:150-183
detect_cpu_frequency_changes(vmlog_data) == ChangesFrom(vmlog_data, 1)

\* metrics_analyzer.py:185-210  (i counts from 0)
RECURSIVE SwapActivityFrom(_, _)
SwapActivityFrom(vmlog_data, i) ==
    IF i >= Len(vmlog_data) THEN <<>>
    ELSE LET entry == vmlog_data[i + 1]
             pswpin == Get(entry, "pswpin", 0)
             pswpout == Get(entry, "pswpout", 0)
         IN  (IF pswpin > 0 \/ pswpout > 0
              THEN << [index |-> i, timestamp |-> Get(entry, "timestamp", None),
                       pswpin |-> pswpin, pswpout |-> pswpout,
                       total |-> pswpin + pswpout] >>
              ELSE <<>>) \o SwapActivityFrom(vmlog_data, i + 1)

detect_swap_activity(vmlog_data) == SwapActivityFrom(vmlog_data, 0)

\* metrics_analyzer.py:212-237  (i counts from 0)
RECURSIVE FaultBurstsFrom(_, _, _)
FaultBurstsFrom(vmlog_data, threshold, i) ==
    IF i >= Len(vmlog_data) THEN <<>>
    ELSE LET entry == vmlog_data[i + 1]
             pgmajfault == Get(entry, "pgmajfault", 0)
         IN  (IF pgmajfault >= threshold
              THEN << [index |-> i, timestamp |-> Get(entry, "timestamp", None),
                       pgmajfault |-> pgmajfault,
                       pgmajfault_f |-> Get(entry, "pgmajfault_f", 0),
                       pgmajfault_a |-> Get(entry, "pgmajfault_a", 0)] >>
              ELSE <<>>) \o FaultBurstsFrom(vmlog_data, threshold, i + 1)

detect_page_fault_bursts(vmlog_data, threshold) == FaultBurstsFrom(vmlog_data, threshold, 0)

\* What a call leaves in the list it was given: the methods only read it
\* (entry.get, enumerate, comprehensions; sorted(values) sorts a copy).
LeftInList_FirstDropped(vmlog_data) ==
    IF vmlog_data = <<>> THEN <<>> ELSE Tail(vmlog_data)
LeftInList(vmlog_data) == vmlog_data

AnIdle ==
    /\ an_pc = "idle"
    /\ an_vmlog_data = <<>>
    /\ an_thresholds = [spike |-> <<2, 1>>, fault |-> 100]
    /\ an_called = {}
    /\ an_results = [stats |-> <<>>, spikes |-> <<>>, changes |-> <<>>,
                     activities |-> <<>>, bursts |-> <<>>]

AnInit ==
    /\ an_pc = "ready"
    /\ an_vmlog_data \in AnalyzerInputs
    /\ an_thresholds \in AnalyzerThresholds
    /\ an_called = {}
    /\ an_results = [stats |-> <<>>, spikes |-> <<>>, changes |-> <<>>,
                     activities |-> <<>>, bursts |-> <<>>]

\* A method call: its result is kept, the list is what the call left of it.
AnCall(name, result) ==
    /\ an_pc = "ready"
    /\ an_results' = [an_results EXCEPT ![name] = result]
    /\ an_called' = an_called \cup {name}
    /\ an_vmlog_data' = LeftInList(an_vmlog_data)
    /\ UNCHANGED <<an_pc, an_thresholds>>
    /\ UNCHANGED outsideAn

\* metrics_analyzer.py:36-85
CalculateStats == AnCall("stats", calculate_stats(an_vmlog_data))

\* metrics_analyzer.py:87-129
DetectSpikesOfCpuusage ==
    AnCall("spikes", detect_spikes(an_vmlog_data, "cpuusage", an_thresholds.spike))

\* metrics_analyzer.py:150-183
DetectCpuFrequencyChanges ==
    AnCall("changes", detect_cpu_frequency_changes(an_vmlog_data))

\* metrics_analyzer.py:185-210
DetectSwapActivity == AnCall("activities", detect_swap_activity(an_vmlog_data))

\* metrics_analyzer.py:212-237
DetectPageFaultBursts ==
    AnCall("bursts", detect_page_fault_bursts(an_vmlog_data, an_thresholds.fault))

AnNext ==
    \/ CalculateStats
    \/ DetectSpikesOfCpuusage
    \/ DetectCpuFrequencyChanges
    \/ DetectSwapActivity
    \/ DetectPageFaultBursts

(***************************************************************************)
(* ChartGenerator.sample_data and the segment records of main.             *)
(*                                                                         *)
(* sample_data steps a float: i = 0.0, then i += step with                 *)
(* step = len / max_points.  After k additions the exact value is          *)
(* k * len / max_points; the float is that value or one a rounding error   *)
(* away, which shows only where the exact value is a whole number m: a     *)
(* float just below m gives int(i) = m - 1, and just below len it passes   *)
(* `i < len` once more.  The steps at which the float fell below are the   *)
(* set `below`, any set of such steps; it is empty when len / max_points   *)
(* is a binary fraction, whose sums are exact.                             *)
(***************************************************************************)
MaxChunk == 8
MaxPoints == 6

\* Chunks of samples ten seconds apart; the first or the last may come
\* without timestamp.
ChunkStamping == {"all", "not first", "not last"}

ChunkEntries(n, stamping) ==
    [i \in 1..n |->
        [id |-> i,
         timestamp |-> IF \/ stamping = "not first" /\ i = 1
                          \/ stamping = "not last" /\ i = n
                       THEN None ELSE 10 * i]]

ChunkChoices == {ChunkEntries(n, st) : n \in 0..MaxChunk, st \in ChunkStamping}

\* max_points, max_data_points: at least 1
PointChoices == 1..MaxPoints

RECURSIVE GCD(_, _)
GCD(a, b) == IF b = 0 THEN a ELSE GCD(b, a % b)

\* chart_generator.py:553  step = len(vmlog_data) / max_points is a binary
\* fraction when the denominator in lowest terms is a power of two
StepIsExact(n, max_points) ==
    (max_points \div GCD(n, max_points)) \in {1, 2, 4, 8, 16, 32}

\* chart_generator.py:559  i += step: the steps at which the sum can have
\* fallen below the whole number it stands for
RoundingChoices(n, max_points) ==
    IF n <= max_points \/ StepIsExact(n, max_points) THEN {{}}
    ELSE SUBSET {k \in 1..max_points : (k * n) % max_points = 0}

\* chart_generator.py:557  while i < len(vmlog_data), after k additions
StillBelowLen(n, max_points, k, below) ==
    k < max_points \/ (k = max_points /\ k \in below)

\* chart_generator.py:558  int(i), after k additions
IntOfStep(n, max_points, k, below) ==
    ((k * n) \div max_points) - (IF k \in below THEN 1 ELSE 0)

\* chart_generator.py:556-559
RECURSIVE SampleLoop(_, _, _, _)
SampleLoop(vmlog_data, max_points, k, below) ==
    IF StillBelowLen(Len(vmlog_data), max_points, k, below)
    THEN <<vmlog_data[IntOfStep(Len(vmlog_data), max_points, k, below) + 1]>>
            \o SampleLoop(vmlog_data, max_points, k + 1, below)
    ELSE <<>>

\* chart_generator.py:538-561
sample_data(vmlog_data, max_points, below) ==
    IF Len(vmlog_data) <= max_points THEN vmlog_data
    ELSE SampleLoop(vmlog_data, max_points, 0, below)

\* main.py:526-545  the record of one chunk
SegmentRecord(chunk_entries, max_data_points, below) ==
    [entries |-> IF Len(chunk_entries) > max_data_points
                 THEN sample_data(chunk_entries, max_data_points, below)
                 ELSE chunk_entries,
     start_time |-> chunk_entries[1].timestamp,
     end_time |-> chunk_entries[Len(chunk_entries)].timestamp]

SmIdle ==
    /\ sm_pc = "idle"
    /\ sm_chunk_entries = <<>>
    /\ sm_max_points = 1
    /\ sm_sampled = <<>>
    /\ sm_segment = Absent

SmInit ==
    /\ sm_pc = "input"
    /\ sm_chunk_entries \in ChunkChoices
    /\ sm_max_points \in PointChoices
    /\ sm_sampled = <<>>
    /\ sm_segment = Absent

\* chart_generator.py:538-561
SampleData ==
    /\ sm_pc = "input"
    /\ \E below \in RoundingChoices(Len(sm_chunk_entries), sm_max_points) :
          sm_sampled' = sample_data(sm_chunk_entries, sm_max_points, below)
    /\ sm_pc' = "sampled"
    /\ UNCHANGED <<sm_chunk_entries, sm_max_points, sm_segment>>
    /\ UNCHANGED outsideSm

\* main.py:516-545  an empty chunk is passed over
BuildSegment ==
    /\ sm_pc = "input"
    /\ \E below \in RoundingChoices(Len(sm_chunk_entries), sm_max_points) :
          sm_segment' = IF sm_chunk_entries = <<>> THEN Absent
                        ELSE SegmentRecord(sm_chunk_entries, sm_max_points, below)
    /\ sm_pc' = "built"
    /\ UNCHANGED <<sm_chunk_entries, sm_max_points, sm_sampled>>
    /\ UNCHANGED outsideSm

SmNext == SampleData \/ BuildSegment

(***************************************************************************)
(* UserFeedbackParser._split_sections.  A line is a record of its text and *)
(* of what the patterns make of it: kind "header" (MULTILINE_PATTERN       *)
(* matches, name is its group), "start" and "end" (the markers), "simple"  *)
(* (_parse_simple_line gives key and value) and "text" (none of these).    *)
(* sections maps a name to a list of texts: the lines that '\n'.join makes *)
(* a section's content of, or the one value of a simple section.           *)
(***************************************************************************)
MaxFbLines == 5

HeaderLine(name) ==
    [kind |-> "header", name |-> name, value |-> "", text |-> name \o "=<multiline>"]
StartLine == [kind |-> "start", name |-> "", value |-> "", text |-> "---------- START ----------"]
EndLine == [kind |-> "end", name |-> "", value |-> "", text |-> "---------- END ----------"]
SimpleLine(key, value) ==
    [kind |-> "simple", name |-> key, value |-> value, text |-> key \o "=" \o value]
TextLine(text) == [kind |-> "text", name |-> "", value |-> "", text |-> text]

\* Two section names, the markers, a simple line, a simple line whose key is
\* a section name, and a line of text.
FbLines ==
    { HeaderLine("syslog"), HeaderLine("dmesg"), StartLine, EndLine,
      SimpleLine("HWID", "x"), SimpleLine("syslog", "y"), TextLine("t") }

\* user_feedback_parser.py:123  content.split('\n')
FbContents == UNION {[1..n -> FbLines] : n \in 0..MaxFbLines}

\* user_feedback_parser.py:139, 159, 177, 183  sections[key] = value
SetSection(sections, key, value) == (key :> value) @@ sections

\* user_feedback_parser.py:138, 182  if current_section and current_content
SavePrevious(sections, current_section, current_content) ==
    IF current_section # "" /\ current_content # <<>>
    THEN SetSection(sections, current_section, current_content)
    ELSE sections

\* user_feedback_parser.py:168-169  current_content.append(line)
AppendContent(current_content, started, line) ==
    IF started THEN Append(current_content, line.text) ELSE current_content

\* user_feedback_parser.py:131-179  one round of the loop per line;
\* current_section None is ""
RECURSIVE SplitLoop(_, _, _, _, _, _, _)
SplitLoop(lines, i, sections, current_section, current_content, in_multiline, started) ==
    IF i > Len(lines)
    THEN SavePrevious(sections, current_section, current_content)
    ELSE LET line == lines[i]
         IN  IF line.kind = "header"
             THEN SplitLoop(lines, i + 1,
                            SavePrevious(sections, current_section, current_content),
                            line.name, <<>>, TRUE, FALSE)
             ELSE IF in_multiline /\ ~started /\ line.kind = "start"
             THEN SplitLoop(lines, i + 1, sections, current_section, current_content,
                            in_multiline, TRUE)
             ELSE IF in_multiline /\ started /\ line.kind = "end"
             THEN SplitLoop(lines, i + 1,
                            SetSection(sections, current_section, current_content),
                            "", <<>>, FALSE, FALSE)
             ELSE IF in_multiline
             THEN SplitLoop(lines, i + 1, sections, current_section,
                            AppendContent(current_content, started, line),
                            in_multiline, started)
             ELSE IF line.kind = "simple" /\ line.value # "<multiline>"
             THEN SplitLoop(lines, i + 1, SetSection(sections, line.name, <<line.value>>),
                            current_section, current_content, in_multiline, started)
             ELSE SplitLoop(lines, i + 1, sections, current_section, current_content,
                            in_multiline, started)

\* user_feedback_parser.py:112-185
split_sections(lines) == SplitLoop(lines, 1, <<>>, "", <<>>, FALSE, FALSE)

FbIdle ==
    /\ fb_pc = "idle"
    /\ fb_lines = <<>>
    /\ fb_sections = <<>>

FbInit ==
    /\ fb_pc = "input"
    /\ fb_lines \in FbContents
    /\ fb_sections = <<>>

\* user_feedback_parser.py:112-185
SplitSections ==
    /\ fb_pc = "input"
    /\ fb_sections' = split_sections(fb_lines)
    /\ fb_pc' = "done"
    /\ UNCHANGED fb_lines
    /\ UNCHANGED outsideFb

FbNext == SplitSections

(***************************************************************************)
(* Two parse_content calls on one parser instance, a VmlogParser or a      *)
(* TempLoggerParser, that advance line by line in any order: one after the *)
(* other, or interleaved.  A call has its locals (the lines of its text,   *)
(* the index of the next one, columns, entries); the instance has what     *)
(* parsing writes to self: columns, and the three sets of sensor names.    *)
(* A temp_logger line is the record of what TEMP_LOGGER_PATTERN and        *)
(* fromisoformat make of it, with the readings the three value patterns    *)
(* find; a reading is a name, a unit ("C", "W", "RPM") and a value, and    *)
(* one of unit "W" may be text that float() does not take ("1.2.3").       *)
(***************************************************************************)
MaxCallLines == 2

CallIds == {1, 2}

Reading(name, unit, value) == [name |-> name, unit |-> unit, value |-> value, ok |-> TRUE]
BadPower(name) == [name |-> name, unit |-> "W", value |-> 0, ok |-> FALSE]

TempLine(kind, time, readings) == [kind |-> kind, time |-> time, readings |-> readings]

\* A line of another program, a line of readings, an earlier one that reads a
\* sensor twice, one whose timestamp is no date, and one with a power value
\* that is no number between a temperature and a fan.
TempLines ==
    { TempLine("other", 0, <<>>),
      TempLine("temp_logger", 20,
               <<Reading("TCPU", "C", 55), Reading("PL1", "W", 6000), Reading("Fan0RPM", "RPM", 2776)>>),
      TempLine("temp_logger", 10,
               <<Reading("TCPU", "C", 60), Reading("TSR0", "C", 44), Reading("TCPU", "C", 61)>>),
      TempLine("badtime", 0, <<Reading("TSR1", "C", 30)>>),
      TempLine("temp_logger", 30,
               <<Reading("TSR2", "C", 50), BadPower("PL2"), Reading("Fan1RPM", "RPM", 100)>>) }

\* Two headers, a line of the fixture and a line with a token that is no number.
CallVmlogLines ==
    {VmlogLine("time", <<>>, " ", c) : c \in HeaderColumns}
    \cup {VmlogLine("stamp", <<VmlogStamp(10, 27, 15, 14, 47)>>, " ", FixtureTokens),
          VmlogLine("stamp", <<VmlogStamp(10, 27, 15, 14, 46)>>, " ", <<IntToken(5), BadToken, IntToken(7)>>)}

CallContents(parser) ==
    UNION {[1..n -> IF parser = "VmlogParser" THEN CallVmlogLines ELSE TempLines] :
              n \in 0..MaxCallLines}

\* vmlog_parser.py:47  reference_year, the same for both calls
CallYear == CHOOSE y \in EvYears : TRUE

\* vmlog_parser.py:48, temp_logger_parser.py:34-36  self after __init__
FreshSelf ==
    [columns |-> DEFAULT_COLUMNS, temperature_sensors |-> {}, power_sensors |-> {},
     fan_sensors |-> {}]

\* vmlog_parser.py:79-80, temp_logger_parser.py:47  the locals at the start
NewCall(content) ==
    [content |-> content, status |-> "running", i |-> 1, columns |-> DEFAULT_COLUMNS,
     entries |-> <<>>]

\* vmlog_parser.py:94  self._parse_line(line, columns): the local columns
ColumnsForLine_OfSelf(columns, self_columns) == self_columns
ColumnsForLine(columns, self_columns) == columns

\* vmlog_parser.py:82-96  one round of the loop
VmlogLineStep(call, self) ==
    LET line == call.content[call.i]
        entry == VmParseLine(line, ColumnsForLine(call.columns, self.columns), CallYear, TRUE)
    IN  IF line.first.kind = "blank"
        THEN [call |-> [call EXCEPT !.i = @ + 1], self |-> self]
        ELSE IF IsHeaderLine(line)
        THEN [call |-> [call EXCEPT !.i = @ + 1, !.columns = ParseHeader(line)],
              self |-> [self EXCEPT !.columns = ParseHeader(line)]]
        ELSE [call |-> [call EXCEPT !.i = @ + 1,
                                    !.entries = IF entry = Absent THEN @ ELSE KeepEntry(@, entry)],
              self |-> self]

\* The positions of the readings of a unit, up to position last.
ReadingsOf(readings, unit, last) ==
    {j \in 1..Len(readings) : j <= last /\ readings[j].unit = unit}

\* temp_logger_parser.py:104  float(match.group(2)): the first one to raise,
\* Len + 1 when none does
FirstBadPower(readings) ==
    IF \E j \in ReadingsOf(readings, "W", Len(readings)) : ~readings[j].ok
    THEN CHOOSE j \in ReadingsOf(readings, "W", Len(readings)) :
            /\ ~readings[j].ok
            /\ \A l \in ReadingsOf(readings, "W", j - 1) : readings[l].ok
    ELSE Len(readings) + 1

\* temp_logger_parser.py:98, 105, 112  entry[...][sensor_name] = value: the
\* pairs of a name and its last value
ValuesOf(readings, unit) ==
    {<<readings[j].name, readings[j].value>> : j \in
        {k \in ReadingsOf(readings, unit, Len(readings)) :
            \A l \in ReadingsOf(readings, unit, Len(readings)) :
                readings[l].name = readings[k].name => l <= k}}

\* temp_logger_parser.py:99, 106, 113  self.<...>_sensors.add(sensor_name)
AddSensors_Forgetful(sensors, readings, unit, last) ==
    {readings[j].name : j \in ReadingsOf(readings, unit, last)}
AddSensors(sensors, readings, unit, last) ==
    sensors \cup {readings[j].name : j \in ReadingsOf(readings, unit, last)}

\* temp_logger_parser.py:60-115  _parse_line and the round of the loop of
\* parse_content it is called in (49-52)
TempLineStep(call, self) ==
    LET line == call.content[call.i]
        readings == line.readings
        bad == FirstBadPower(readings)
        entry == [timestamp |-> line.time,
                  temperatures |-> ValuesOf(readings, "C"),
                  power |-> ValuesOf(readings, "W"),
                  fans |-> ValuesOf(readings, "RPM")]
    IN  IF line.kind # "temp_logger"
        THEN [call |-> [call EXCEPT !.i = @ + 1], self |-> self]
        ELSE IF bad <= Len(readings)
        THEN [call |-> [call EXCEPT !.status = "raised", !.entries = <<>>],
              self |-> [self EXCEPT
                  !.temperature_sensors = AddSensors(@, readings, "C", Len(readings)),
                  !.power_sensors = AddSensors(@, readings, "W", bad - 1)]]
        ELSE [call |-> [call EXCEPT !.i = @ + 1, !.entries = Append(@, entry)],
              self |-> [self EXCEPT
                  !.temperature_sensors = AddSensors(@, readings, "C", Len(readings)),
                  !.power_sensors = AddSensors(@, readings, "W", Len(readings)),
                  !.fan_sensors = AddSensors(@, readings, "RPM", Len(readings))]]

\* temp_logger_parser.py:56  entries.sort(key=timestamp): stable
RECURSIVE SortByTimestamp(_)
SortByTimestamp(parsed) ==
    IF parsed = <<>> THEN <<>>
    ELSE LET sorted == SortByTimestamp(SubSeq(parsed, 1, Len(parsed) - 1))
             last == parsed[Len(parsed)]
             before == Cardinality({j \in 1..Len(sorted) : sorted[j].timestamp <= last.timestamp})
         IN  SubSeq(sorted, 1, before) \o <<last>> \o SubSeq(sorted, before + 1, Len(sorted))

\* vmlog_parser.py:82-98, temp_logger_parser.py:49-58  the next step of a
\* running call: a line, or the return behind the last line
CallStep(parser, call, self) ==
    IF call.i <= Len(call.content)
    THEN (IF parser = "VmlogParser" THEN VmlogLineStep(call, self)
          ELSE TempLineStep(call, self))
    ELSE [call |-> [call EXCEPT !.status = "returned",
                                !.entries = IF parser = "VmlogParser" THEN @
                                            ELSE SortByTimestamp(@)],
          self |-> self]

\* A call run from its start to its end with nothing in between.
RECURSIVE RunCall(_, _, _)
RunCall(parser, call, self) ==
    IF call.status # "running" THEN [call |-> call, self |-> self]
    ELSE RunCall(parser, CallStep(parser, call, self).call, CallStep(parser, call, self).self)

\* temp_logger_parser.py:38-58  parse_content on an instance just made
TempParseContent(content) == RunCall("TempLoggerParser", NewCall(content), FreshSelf)

PsIdle ==
    /\ ps_parser = "none"
    /\ ps_self = FreshSelf
    /\ ps_calls = <<>>

PsInit ==
    /\ ps_parser \in {"VmlogParser", "TempLoggerParser"}
    /\ ps_self = FreshSelf
    /\ ps_calls \in [CallIds -> {NewCall(content) : content \in CallContents(ps_parser)}]

\* vmlog_parser.py:82-96, temp_logger_parser.py:49-52  call c reads its next line
ParseNextLine(c) ==
    /\ ps_parser # "none"
    /\ ps_calls[c].status = "running"
    /\ ps_calls[c].i <= Len(ps_calls[c].content)
    /\ ps_calls' = [ps_calls EXCEPT ![c] = CallStep(ps_parser, ps_calls[c], ps_self).call]
    /\ ps_self' = CallStep(ps_parser, ps_calls[c], ps_self).self
    /\ UNCHANGED ps_parser
    /\ UNCHANGED outsidePs

\* vmlog_parser.py:98, temp_logger_parser.py:55-58  call c returns
ReturnEntries(c) ==
    /\ ps_parser # "none"
    /\ ps_calls[c].status = "running"
    /\ ps_calls[c].i > Len(ps_calls[c].content)
    /\ ps_calls' = [ps_calls EXCEPT ![c] = CallStep(ps_parser, ps_calls[c], ps_self).call]
    /\ UNCHANGED <<ps_parser, ps_self>>
    /\ UNCHANGED outsidePs

PsNext ==
    \/ \E c \in CallIds : ParseNextLine(c)
    \/ \E c \in CallIds : ReturnEntries(c)

(***************************************************************************)
(* The specifications, one per component                                   *)
(***************************************************************************)
OthersIdle(component) ==
    /\ component = "seg" \/ SegIdle
    /\ component = "near" \/ NearIdle
    /\ component = "ts" \/ TsIdle
    /\ component = "ev" \/ EvIdle
    /\ component = "vm" \/ VmIdle
    /\ component = "sp" \/ SpIdle
    /\ component = "an" \/ AnIdle
    /\ component = "sm" \/ SmIdle
    /\ component = "fb" \/ FbIdle
    /\ component = "ps" \/ PsIdle

InitSeg == SegInit /\ OthersIdle("seg")
InitNear == NearInit /\ OthersIdle("near")
InitTs == TsInit /\ OthersIdle("ts")
InitEvents == EvInit /\ OthersIdle("ev")
InitVmlog == VmInit /\ OthersIdle("vm")
InitSpikes == SpInit /\ OthersIdle("sp")
InitAnalyzer == AnInit /\ OthersIdle("an")
InitSampler == SmInit /\ OthersIdle("sm")
InitFeedback == FbInit /\ OthersIdle("fb")
InitCalls == PsInit /\ OthersIdle("ps")

SpecSeg == InitSeg /\ [][SegNext]_vars

SpecNear == InitNear /\ [][NearNext]_vars

SpecTs == InitTs /\ [][TsNext]_vars

SpecEvents == InitEvents /\ [][EvNext]_vars

SpecVmlog == InitVmlog /\ [][VmNext]_vars

SpecSpikes == InitSpikes /\ [][SpNext]_vars

SpecAnalyzer == InitAnalyzer /\ [][AnNext]_vars

SpecSampler == InitSampler /\ [][SmNext]_vars

SpecFeedback == InitFeedback /\ [][FbNext]_vars

SpecCalls == InitCalls /\ [][PsNext]_vars

Init ==
    \/ InitSeg \/ InitNear \/ InitTs \/ InitEvents \/ InitVmlog \/ InitSpikes
    \/ InitAnalyzer \/ InitSampler \/ InitFeedback \/ InitCalls

Next ==
    \/ SegNext \/ NearNext \/ TsNext \/ EvNext \/ VmNext \/ SpNext
    \/ AnNext \/ SmNext \/ FbNext \/ PsNext

Spec == Init /\ [][Next]_vars

(***************************************************************************)
(* Segmenter: what the claims are stated with                              *)
(***************************************************************************)
EntryTimestamps == [i \in 1..Len(entries) |-> entries[i].timestamp]

ChunkSizes(chunks) == [k \in 1..Len(chunks) |-> Len(chunks[k])]

\* The samples that open a chunk other than the first.
ChunkStarts(chunks) ==
    {chunks[k][1].id : k \in {j \in 2..Len(chunks) : chunks[j] # <<>>}}

\* The chunk a sample was put in (0 when it is in none).
ChunkOf(chunks, id) ==
    LET ks == {k \in 1..Len(chunks) : \E j \in 1..Len(chunks[k]) : chunks[k][j].id = id}
    IN  IF ks = {} THEN 0 ELSE CHOOSE k \in ks : TRUE

\* How many places of the chunks hold the sample.
Occurrences(chunks, id) ==
    Cardinality({<<k, j>> \in (1..Len(chunks)) \X (1..MaxEntries + 1) :
                    j <= Len(chunks[k]) /\ chunks[k][j].id = id})

TimestampedOf(chunk) == SelectSeq(chunk, LAMBDA e : e.timestamp # None)

\* Last timestamped sample minus first timestamped sample, in seconds.
ChunkSpan(chunk) ==
    LET t == TimestampedOf(chunk)
    IN  t[Len(t)].timestamp - t[1].timestamp

Partitions(chunks, es) ==
    /\ Concat(chunks) = es
    /\ \A k \in 1..Len(chunks) : chunks[k] # <<>>

\* C1: split_entries_by_time_gap opens a new chunk right before sample i
\* (i >= 2, counting from 1) exactly when samples i-1 and i both have a
\* timestamp and ts[i] - ts[i-1] > max_gap (a gap equal to max_gap does not
\* split); every other sample, one without a timestamp included, goes into the
\* chunk of its predecessor.  Samples at 0 s, 1 s, 21 s with max_gap = 5 give
\* chunks of sizes [2, 1].
C1_GapRule ==
    seg_pc = "gap" =>
        /\ \A i \in 2..Len(entries) :
              LET splits == /\ entries[i - 1].timestamp # None
                            /\ entries[i].timestamp # None
                            /\ entries[i].timestamp - entries[i - 1].timestamp
                                  > max_gap_seconds
              IN  /\ (i \in ChunkStarts(gap_chunks)) <=> splits
                  /\ ChunkOf(gap_chunks, i)
                        = ChunkOf(gap_chunks, i - 1) + (IF splits THEN 1 ELSE 0)
        /\ (EntryTimestamps = <<0, 1, 21>> /\ max_gap_seconds = 5)
              => ChunkSizes(gap_chunks) = <<2, 1>>

\* C1 witness: the 0 s / 1 s / 21 s scenario has been split.
C1_Witness ==
    /\ seg_pc = "gap"
    /\ EntryTimestamps = <<0, 1, 21>>
    /\ max_gap_seconds = 5
    /\ Len(gap_chunks) = 2

\* C2: the chunks of split_entries_by_time_gap, concatenated in order, are the
\* input, and none is empty; the same for split_entries_by_max_duration; and
\* after gap-then-duration every sample is in exactly one segment.
C2_ChunksPartitionInput ==
    /\ seg_pc = "gap" => Partitions(gap_chunks, entries)
    /\ seg_pc = "duration" => Partitions(duration_chunks, entries)
    /\ seg_pc = "composed" =>
          /\ Partitions(all_chunks, entries)
          /\ \A i \in 1..Len(entries) : Occurrences(all_chunks, i) = 1

\* C2 witness: an input that both rules split.
C2_Witness ==
    /\ seg_pc = "composed"
    /\ Len(entries) = 3
    /\ Len(gap_chunks) = 2
    /\ Len(all_chunks) = 3

\* C3: every chunk of split_entries_by_max_duration that holds a timestamped
\* sample spans at most max_duration (last timestamped minus first
\* timestamped sample), also when the chunks come from the gap chunks.
C3_DurationSpan ==
    /\ seg_pc = "duration" =>
          \A k \in 1..Len(duration_chunks) :
              TimestampedOf(duration_chunks[k]) # <<>> =>
                  ChunkSpan(duration_chunks[k]) <= max_duration_minutes * 60
    /\ seg_pc = "composed" =>
          \A k \in 1..Len(all_chunks) :
              TimestampedOf(all_chunks[k]) # <<>> =>
                  ChunkSpan(all_chunks[k]) <= max_duration_minutes * 60

\* C3 witness: a time-sorted input cut by the duration rule, one chunk of
\* which spans exactly the ceiling.
C3_Witness ==
    /\ seg_pc = "duration"
    /\ max_duration_minutes = 1
    /\ \A i \in 2..Len(entries) :
          /\ entries[i].timestamp # None
          /\ entries[i - 1].timestamp # None
          /\ entries[i - 1].timestamp <= entries[i].timestamp
    /\ Len(duration_chunks) = 2
    /\ ChunkSpan(duration_chunks[1]) = 60

\* The anchor in force when sample i is reached: the timestamp of the first
\* timestamped sample before i in the chunk of sample i - 1 (None if none).
AnchorBefore(chunks, i) ==
    LET earlier == {j \in 1..(i - 1) :
                       /\ ChunkOf(chunks, j) = ChunkOf(chunks, i - 1)
                       /\ entries[j].timestamp # None}
    IN  IF earlier = {} THEN None
        ELSE entries[CHOOSE j \in earlier : \A l \in earlier : j <= l].timestamp

\* C27: in split_entries_by_max_duration the anchor is the timestamp of the
\* first timestamped sample of the current chunk; a new chunk starts right
\* before a timestamped sample exactly when its timestamp minus the anchor is
\* > max_duration (strict), and that sample then is the first timestamped one
\* of its chunk; a sample without timestamp joins the current chunk and starts
\* none.  So the first timestamped sample of a chunk is more than
\* max_duration after the first timestamped sample of the chunk before it.
C27_AnchorRule ==
    seg_pc = "duration" =>
        /\ \A i \in 2..Len(entries) :
              LET anchor == AnchorBefore(duration_chunks, i)
                  splits == /\ entries[i].timestamp # None
                            /\ anchor # None
                            /\ entries[i].timestamp - anchor > max_duration_minutes * 60
              IN  /\ (i \in ChunkStarts(duration_chunks)) <=> splits
                  /\ ChunkOf(duration_chunks, i)
                        = ChunkOf(duration_chunks, i - 1) + (IF splits THEN 1 ELSE 0)
        /\ \A k \in 2..Len(duration_chunks) :
              /\ duration_chunks[k][1].timestamp # None
              /\ TimestampedOf(duration_chunks[k - 1]) # <<>>
              /\ duration_chunks[k][1].timestamp
                    - TimestampedOf(duration_chunks[k - 1])[1].timestamp
                    > max_duration_minutes * 60

\* C27 witness: the second chunk was opened by a sample more than the ceiling
\* after the first anchor, and holds a sample exactly the ceiling after its
\* own anchor, which is more than the ceiling after the first.
C27_Witness ==
    /\ seg_pc = "duration"
    /\ max_duration_minutes = 1
    /\ EntryTimestamps = <<0, 61, 121>>
    /\ ChunkSizes(duration_chunks) = <<1, 2>>

(***************************************************************************)
(* Nearest timestamp: what the claims are stated with                      *)
(***************************************************************************)
Dist(a, b) == IF a >= b THEN a - b ELSE b - a

\* ts[i] with the 0-based index of the code.
At(ts, i) == ts[i + 1]

\* Where bisect_left would insert t: the number of timestamps below t.
InsertionPoint(ts, t) == Cardinality({i \in 1..Len(ts) : ts[i] < t})

\* C4: on a non-empty sorted list the index returned is in range and
\* minimises |ts[i] - t|; when the insertion point lies between two
\* candidates the earlier one is returned if it is nearer or equally near,
\* the later one if that is strictly nearer.
C4_NearestMinimises ==
    (near_pc = "done" /\ timestamps # <<>>) =>
        /\ nearest \in 0..(Len(timestamps) - 1)
        /\ \A i \in 0..(Len(timestamps) - 1) :
              Dist(At(timestamps, nearest), target) <= Dist(At(timestamps, i), target)
        /\ LET ip == InsertionPoint(timestamps, target)
           IN  (0 < ip /\ ip < Len(timestamps)) =>
                  LET d_before == target - At(timestamps, ip - 1)
                      d_after == At(timestamps, ip) - target
                  IN  /\ d_before = d_after => nearest = ip - 1
                      /\ d_before < d_after => nearest = ip - 1
                      /\ d_before > d_after => nearest = ip

\* C4 witness: a target midway between two different neighbours.
C4_Witness ==
    /\ near_pc = "done"
    /\ Len(timestamps) = 3
    /\ timestamps[1] < timestamps[2]
    /\ target - timestamps[1] = timestamps[2] - target
    /\ nearest = 0

\* C5 as stated: on every non-empty non-decreasing list, t <= ts[0] gives
\* index 0 and t >= ts[-1] gives len(ts) - 1.
C5_BoundaryAsStated ==
    (near_pc = "done" /\ timestamps # <<>>) =>
        /\ target <= At(timestamps, 0) => nearest = 0
        /\ target >= At(timestamps, Len(timestamps) - 1) => nearest = Len(timestamps) - 1

\* C5 amended: t <= ts[0] gives index 0; t > ts[-1] gives len(ts) - 1; and
\* t = ts[-1] gives the lowest index holding that last value, which is
\* len(ts) - 1 exactly when the last timestamp is not repeated.
C5_Boundary ==
    (near_pc = "done" /\ timestamps # <<>>) =>
        LET last == At(timestamps, Len(timestamps) - 1)
            first_of_last ==
                CHOOSE i \in 0..(Len(timestamps) - 1) :
                    /\ At(timestamps, i) = last
                    /\ \A j \in 0..(i - 1) : At(timestamps, j) < last
        IN  /\ target <= At(timestamps, 0) => nearest = 0
            /\ target > last => nearest = Len(timestamps) - 1
            /\ target = last => nearest = first_of_last
            /\ (target = last /\ first_of_last = Len(timestamps) - 1)
                  => nearest = Len(timestamps) - 1

\* C5 witness: the target equals a repeated last timestamp.
C5_Witness ==
    /\ near_pc = "done"
    /\ Len(timestamps) = 3
    /\ timestamps[1] < timestamps[2]
    /\ timestamps[2] = timestamps[3]
    /\ target = timestamps[3]
    /\ nearest = 1

(***************************************************************************)
(* Timestamp extraction: what the claims are stated with                   *)
(***************************************************************************)
IsDatetime(v) == DOMAIN v = {"year", "month", "day", "hour", "minute", "second"}

\* The reference year the parser works with.
TsYear == IF ts_year_arg = None THEN ts_now_year ELSE ts_year_arg

HasStamp(line, kind) == \E i \in 1..Len(line) : line[i].kind = kind

FirstStamp(line, kind) ==
    line[CHOOSE i \in 1..Len(line) :
            /\ line[i].kind = kind
            /\ \A j \in 1..(i - 1) : line[j].kind # kind]

Num2(digits, at) == 10 * digits[at] + digits[at + 1]

RealMonths ==
    {"Jan", "Feb", "Mar", "Apr", "May", "Jun", "Jul", "Aug", "Sep", "Oct", "Nov", "Dec"}

MonthNumber(name) ==
    CASE name = "Jan" -> 1 [] name = "Feb" -> 2 [] name = "Mar" -> 3
      [] name = "Apr" -> 4 [] name = "May" -> 5 [] name = "Jun" -> 6
      [] name = "Jul" -> 7 [] name = "Aug" -> 8 [] name = "Sep" -> 9
      [] name = "Oct" -> 10 [] name = "Nov" -> 11 [] name = "Dec" -> 12
      [] OTHER -> 0

\* The fields a stamp spells, read off its text: year, month, day, hour,
\* minute, second (the reference year where the stamp has none; month 0 for
\* a month name that is none).
Spelled(m, year) ==
    CASE m.kind = "iso" ->
            <<1000 * m.date[1] + 100 * m.date[2] + Num2(m.date, 3),
              Num2(m.date, 5), Num2(m.date, 7),
              Num2(m.time, 1), Num2(m.time, 3), Num2(m.time, 5)>>
      [] m.kind = "syslog" ->
            <<year, MonthNumber(m.name),
              IF Len(m.date) = 1 THEN m.date[1] ELSE Num2(m.date, 1),
              Num2(m.time, 1), Num2(m.time, 3), Num2(m.time, 5)>>
      [] OTHER ->
            <<year, Num2(m.date, 1), Num2(m.date, 3),
              Num2(m.time, 1), Num2(m.time, 3), Num2(m.time, 5)>>

\* The stamp spells a date-time that exists.
WellFormed(m, year) ==
    \/ m.kind = "kernel"
    \/ LET f == Spelled(m, year)
       IN  /\ f[1] \in 1..9999
           /\ f[2] \in 1..12
           /\ f[3] >= 1
           /\ f[3] <= (IF f[2] = 2
                       THEN (IF (f[1] % 4 = 0 /\ f[1] % 100 # 0) \/ f[1] % 400 = 0
                             THEN 29 ELSE 28)
                       ELSE IF f[2] \in {4, 6, 9, 11} THEN 30 ELSE 31)
           /\ f[4] \in 0..23
           /\ f[5] \in 0..59
           /\ f[6] \in 0..59

\* The absolute time a well-formed stamp spells; none for seconds since boot.
Meaning(m, year) ==
    IF m.kind = "kernel" THEN Absent
    ELSE LET f == Spelled(m, year)
         IN  [year |-> f[1], month |-> f[2], day |-> f[3],
              hour |-> f[4], minute |-> f[5], second |-> f[6]]

\* The first encoding of an order that the line carries (0: none of them).
FirstPresent(line, order) ==
    LET ks == {k \in 1..Len(order) : HasStamp(line, order[k])}
    IN  IF ks = {} THEN 0 ELSE CHOOSE k \in ks : \A j \in ks : k <= j

ClaimedOrder == <<"iso", "syslog", "vmlog", "kernel", "chrome">>
CodeOrder == <<"iso", "syslog", "kernel", "vmlog", "chrome">>

FirstMatched(parser, line) ==
    IF parser = "VmlogParser"
    THEN (IF line # <<>> /\ line[1].kind = "vmlog" THEN <<line[1]>> ELSE <<>>)
    ELSE LET order == IF parser = "ErrorDetector" THEN CodeOrder
                      ELSE <<"iso", "syslog", "kernel">>
             k == FirstPresent(line, order)
         IN  IF k = 0 THEN <<>> ELSE <<FirstStamp(line, order[k])>>

\* C8: extraction returns a datetime or None; and when the pattern that
\* matches the line has malformed fields (month outside 1-12, day invalid for
\* the month, hour, minute or second out of range, unknown month name) the
\* extraction is None.
C8_MalformedIsAbsent ==
    ts_pc \in {"ErrorDetector", "CrosEcParser", "VmlogParser"} =>
        /\ ts_result = Absent \/ IsDatetime(ts_result)
        /\ LET m == FirstMatched(ts_pc, ts_line)
           IN  (m # <<>> /\ ~WellFormed(m[1], TsYear)) => ts_result = Absent

\* C9: for a valid bracketed [MMDD/HHMMSS] and a supplied reference year,
\* VmlogParser._parse_timestamp gives a datetime with exactly the month, day,
\* hour, minute and second written (formatting them back with two digits
\* each gives the same ten digits) and with the supplied year.
C9_CompactRoundTrip ==
    (/\ ts_pc = "VmlogParser"
     /\ ts_line # <<>>
     /\ ts_line[1].kind = "vmlog"
     /\ ts_year_arg # None
     /\ WellFormed(ts_line[1], ts_year_arg)) =>
        LET m == ts_line[1]
        IN  /\ IsDatetime(ts_result)
            /\ ts_result.month = Num2(m.date, 1)
            /\ ts_result.day = Num2(m.date, 3)
            /\ ts_result.hour = Num2(m.time, 1)
            /\ ts_result.minute = Num2(m.time, 3)
            /\ ts_result.second = Num2(m.time, 5)
            /\ D2(ts_result.month) \o D2(ts_result.day) = m.date
            /\ D2(ts_result.hour) \o D2(ts_result.minute) \o D2(ts_result.second) = m.time
            /\ ts_result.year = ts_year_arg

\* C9 witness: "[1027/151447]" parsed with reference year 2025.
C9_Witness ==
    /\ ts_pc = "VmlogParser"
    /\ ts_year_arg = 2025
    /\ ts_line = <<[kind |-> "vmlog", name |-> "", date |-> <<1, 0, 2, 7>>,
                    time |-> <<1, 5, 1, 4, 4, 7>>]>>
    /\ ts_result = [year |-> 2025, month |-> 10, day |-> 27,
                    hour |-> 15, minute |-> 14, second |-> 47]

(***************************************************************************)
(* Event parsers: what the claims are stated with                          *)
(***************************************************************************)
\* The category and the severity an event carries, whatever the parser
\* calls them.
EventCategory(e) ==
    IF ev_dialect = "ErrorDetector" \/ ev_dialect = "CrosEcParser" THEN e.type
    ELSE e.category

EventSeverity(e) ==
    IF ev_dialect = "ErrorDetector" THEN e.severity ELSE e.level

\* The line an event was made from.
EventLine(e) ==
    IF ev_dialect = "ErrorDetector" \/ ev_dialect = "CrosEcParser"
    THEN ev_content[e.line_number]
    ELSE e.raw_line

\* The first triple, in table order, whose pattern matches the line.
FirstTriple(line) ==
    PatternTable(ev_dialect)[CHOOSE k \in line.hits : \A j \in line.hits : k <= j]

DeclaredCategories ==
    {PatternTable(ev_dialect)[k].category : k \in 1..Len(PatternTable(ev_dialect))}

EventIndices == 1..Len(ev_events)

\* C10 (as stated): a line contributes at most one event, and the event's
\* category and severity are those of the first triple, in table order,
\* whose pattern matches the line; the severity is in 1..4 and the category
\* is one of the table's.  SystemLogParser.categorize_event passes over the
\* triples below min_level, so the triple it takes need not be the first
\* matching one.
C10_FirstTripleWins ==
    ev_pc = "done" =>
        /\ Len(ev_events) <= Len(ev_content)
        /\ \A i, j \in EventIndices :
              (ev_dialect \in {"ErrorDetector", "CrosEcParser"} /\ i # j)
                  => ev_events[i].line_number # ev_events[j].line_number
        /\ \A i \in EventIndices :
              LET e == ev_events[i]
              IN  /\ EventLine(e).hits # {}
                  /\ EventCategory(e) = FirstTriple(EventLine(e)).category
                  /\ EventSeverity(e) = FirstTriple(EventLine(e)).severity
                  /\ EventSeverity(e) \in 1..4
                  /\ EventCategory(e) \in DeclaredCategories

\* The (timestamp-or-none, message) pair an event carries.
EventKey(e) == <<e.timestamp, e.message>>

\* Whether the parser at hand makes an event of a line taken alone, and the
\* pair that event carries.
Produces(line) ==
    IF ev_dialect = "ErrorDetector" THEN line.hits # {}
    ELSE IF ev_dialect = "CrosEcParser" THEN ~line.skip /\ line.hits # {}
    ELSE /\ SlParseLine(line) # Absent
         /\ categorize_event(line, SlParseLine(line), ev_dialect, ev_min_level) # Absent

LineKey(line) ==
    IF ev_dialect = "ErrorDetector"
    THEN <<EdExtractTimestamp(line.stamps, ev_reference_year), Cut(line)>>
    ELSE IF ev_dialect = "CrosEcParser"
    THEN <<CeExtractTimestamp(line.stamps, ev_reference_year), Cut(line)>>
    ELSE <<SlParseLine(line), CutWithEllipsis(line)>>

ProducingLines == {n \in 1..Len(ev_content) : Produces(ev_content[n])}

\* The first line of the log that produces the pair.
FirstProducer(key) ==
    CHOOSE n \in ProducingLines :
        /\ LineKey(ev_content[n]) = key
        /\ \A m \in ProducingLines : LineKey(ev_content[m]) = key => n <= m

\* C11 (as stated): in the output of one parse call of an event parser no two
\* events carry the same (timestamp-or-none, stored message) pair, and of
\* several lines producing the same pair the first one is the one emitted.
\* ErrorDetector._scan_single_log keeps no set of pairs seen: it emits an
\* event for every matching line.
C11_NoDuplicatePairs ==
    ev_pc = "done" =>
        /\ \A i, j \in EventIndices :
              i # j => EventKey(ev_events[i]) # EventKey(ev_events[j])
        /\ \A n \in ProducingLines :
              \E i \in EventIndices : EventKey(ev_events[i]) = LineKey(ev_content[n])
        /\ \A i \in EventIndices :
              EventLine(ev_events[i]) = ev_content[FirstProducer(EventKey(ev_events[i]))]

\* The lines CrosEcParser does not skip and that match an event pattern.
UnskippedMatches == {n \in 1..Len(ev_content) : ~ev_content[n].skip /\ ev_content[n].hits # {}}

EventLineNumbers == {ev_events[i].line_number : i \in EventIndices}

\* C12: in CrosEcParser.parse_content a line matching a skip pattern
\* contributes no event, whatever event patterns it matches, and does not
\* enter the deduplication set: an unskipped matching line is emitted unless
\* an earlier unskipped matching line carries the same pair.
C12_SkipFirst ==
    (ev_pc = "done" /\ ev_dialect = "CrosEcParser") =>
        /\ \A n \in EventLineNumbers : ~ev_content[n].skip
        /\ \A n \in UnskippedMatches :
              (\A m \in UnskippedMatches :
                  m < n => LineKey(ev_content[m]) # LineKey(ev_content[n]))
                  => n \in EventLineNumbers

\* C12 witness: a skipped line that matches an event pattern is followed by
\* an unskipped line with the same pair, and only the latter is emitted.
C12_Witness ==
    /\ ev_pc = "done"
    /\ ev_dialect = "CrosEcParser"
    /\ Len(ev_content) = 2
    /\ ev_content[1].skip /\ ev_content[1].hits # {}
    /\ ~ev_content[2].skip /\ ev_content[2].hits # {}
    /\ LineKey(ev_content[1]) = LineKey(ev_content[2])
    /\ EventLineNumbers = {2}

\* The fields by which an error refers to its correlated vmlog sample.
SampleReference == {"vmlog_index", "vmlog_timestamp"}

\* What C13 says of one error before (old) and after (new) the mapping to
\* the samples of vmlog_data.
EnrichedOnly(old, new, vmlog_data) ==
    /\ DOMAIN old \subseteq DOMAIN new
    /\ \A f \in DOMAIN old : new[f] = old[f]
    /\ (DOMAIN new) \ (DOMAIN old) \subseteq SampleReference
    /\ old.timestamp = Absent => DOMAIN new = DOMAIN old
    /\ DOMAIN new # DOMAIN old =>
          /\ SampleReference \subseteq DOMAIN new
          /\ new.vmlog_index \in 0..(Len(TimestampsOf(vmlog_data)) - 1)
          /\ new.vmlog_timestamp = TimestampsOf(vmlog_data)[new.vmlog_index + 1]

\* C13: ErrorDetector.map_to_vmlog_timeline returns the same events in the
\* same order with every field they had unchanged; it only adds vmlog_index
\* and vmlog_timestamp, only to events with an absolute timestamp, the index
\* lying within the timestamped samples and the timestamp being that of the
\* sample at the index.
C13_MapOnlyEnriches ==
    [][(ev_pc = "done" /\ ev_pc' = "mapped") =>
          /\ Len(ev_events') = Len(ev_events)
          /\ \A i \in 1..Len(ev_events) :
                EnrichedOnly(ev_events[i], ev_events'[i], ev_vmlog_data')]_vars

\* C13 witness: of two errors mapped to two samples, the one with an
\* absolute timestamp refers to the second sample and the one without a
\* timestamp refers to none.
C13_Witness ==
    /\ ev_pc = "mapped"
    /\ Len(ev_events) = 2
    /\ Len(TimestampsOf(ev_vmlog_data)) = 2
    /\ \E i, j \in 1..2 :
          /\ ev_events[i].timestamp # Absent
          /\ "vmlog_index" \in DOMAIN ev_events[i]
          /\ ev_events[i].vmlog_index = 1
          /\ ev_events[j].timestamp = Absent
          /\ DOMAIN ev_events[j] \cap SampleReference = {}

\* The errors placed in the segment's filtered list.
SegmentErrorSet == {ev_segment_errors[i] : i \in 1..Len(ev_segment_errors)}

\* t lies within the segment widened by 30 seconds at both ends.
WithinThirtySeconds(t) ==
    /\ TotalSeconds(ev_segment.start_time) - 30 <= TotalSeconds(t)
    /\ TotalSeconds(t) <= TotalSeconds(ev_segment.end_time) + 30

\* C14 (as stated): an event is in the segment's filtered list if and only
\* if it has an absolute timestamp within [start - 30 s, end + 30 s].  The
\* filter of main also demands severity >= 3, so a WARNING within the window
\* is left out.
C14_InWindowIffListed ==
    ev_pc = "filtered" =>
        \A i \in EventIndices :
            ev_events[i] \in SegmentErrorSet
                <=> (ev_events[i].timestamp # Absent /\ WithinThirtySeconds(ev_events[i].timestamp))

\* C14 (amended): an error is in the segment's filtered list if and only if
\* its severity is at least 3 and it has an absolute timestamp within
\* [start - 30 s, end + 30 s], both ends included; an error without absolute
\* timestamp is never listed.
C14_SevereInWindowIffListed ==
    ev_pc = "filtered" =>
        /\ \A i \in EventIndices :
              ev_events[i] \in SegmentErrorSet
                  <=> /\ ev_events[i].severity >= 3
                      /\ ev_events[i].timestamp # Absent
                      /\ WithinThirtySeconds(ev_events[i].timestamp)
        /\ \A e \in SegmentErrorSet : \E i \in EventIndices : ev_events[i] = e

\* C14 witness: for the segment 15:14:47-15:14:51 an ERROR at 15:14:48 is
\* listed.
C14_Witness ==
    /\ ev_pc = "filtered"
    /\ ev_segment = [start_time |-> datetime(2025, 10, 27, 15, 14, 47),
                     end_time |-> datetime(2025, 10, 27, 15, 14, 51)]
    /\ \E e \in SegmentErrorSet :
          /\ e.timestamp = datetime(2025, 10, 27, 15, 14, 48)
          /\ e.type = "ERROR"

(***************************************************************************)
(* Vmlog parsing: what the claims are stated with                          *)
(***************************************************************************)
\* The lines that begin with a bracketed stamp whose digits are a date-time.
IsSampleLine(line) ==
    /\ line.first.kind = "stamp"
    /\ VmlogParseTimestamp(line.first.stamp, vm_reference_year) # Absent

SampleLines == {n \in 1..Len(vm_content) : IsSampleLine(vm_content[n])}

\* The line the k-th sample line of the text is.
RECURSIVE NthSampleLine(_, _)
NthSampleLine(k, from) ==
    IF IsSampleLine(vm_content[from])
    THEN (IF k = 1 THEN from ELSE NthSampleLine(k - 1, from + 1))
    ELSE NthSampleLine(k, from + 1)

\* The lines whose first whitespace-separated token is "time".
FirstTokenIsTime(line) == line.first.kind = "time"

\* The column vocabulary the most recent header before line n declares, the
\* built-in one if no header precedes it.
VocabularyAt(n) ==
    LET headers == {m \in 1..(n - 1) : FirstTokenIsTime(vm_content[m])}
    IN  IF headers = {} THEN DEFAULT_COLUMNS
        ELSE LET last == CHOOSE m \in headers : \A h \in headers : h <= m
             IN  <<"time">> \o [i \in 1..Len(vm_content[last].rest) |-> vm_content[last].rest[i].text]

NonTimeColumns(columns) == {columns[i] : i \in 1..Len(columns)} \ {"time"}

\* C15 (as stated): every sample is mapped with the column vocabulary of the
\* most recent preceding line whose first token is "time", with the default
\* vocabulary if there is none.  The parser takes a line for a header only
\* if it starts with "time" and a blank: "time" followed by a tab, or alone
\* on its line, leaves the vocabulary as it was.
C15_LatestHeaderRules ==
    vm_pc = "done" =>
        /\ Len(vm_entries) = Cardinality(SampleLines)
        /\ \A k \in 1..Len(vm_entries) :
              DOMAIN vm_entries[k] =
                  {"timestamp", "timestamp_raw"}
                      \cup NonTimeColumns(VocabularyAt(NthSampleLine(k, 1)))

\* The vocabulary in force at line n: that of the latest line before it that
\* the parser took for a header, the built-in one if there is none.
ActiveColumns(n) ==
    LET headers == {m \in 1..(n - 1) : IsHeaderLine(vm_content[m])}
    IN  IF headers = {} THEN DEFAULT_COLUMNS
        ELSE ParseHeader(vm_content[CHOOSE m \in headers : \A h \in headers : h <= m])

\* Whether a token converts to the number its column holds, and that number.
Converts(col, token) ==
    IF col = "cpuusage" THEN token.lit \in {"int", "float"} ELSE token.lit = "int"

ParsedValue(col, token) ==
    IF col \in CPUFREQ_COLUMNS /\ ConvertFreqToMhz(vm_convert_arg)
    THEN token.thousandths \div 1000
    ELSE token.thousandths

\* C16: every data line with a valid leading timestamp yields a sample with a
\* value for every non-time column of the active vocabulary: 0 where the
\* line has no token for the column, 0 where the token does not convert, and
\* the parsed value of the token everywhere else; no such line is dropped.
C16_BadFieldIsZero ==
    vm_pc = "done" =>
        /\ Len(vm_entries) = Cardinality(SampleLines)
        /\ \A k \in 1..Len(vm_entries) :
              LET n == NthSampleLine(k, 1)
                  cols == ValueColumns(ActiveColumns(n))
                  tokens == vm_content[n].rest
                  sample == vm_entries[k]
              IN  \A i \in 1..Len(cols) :
                      /\ cols[i] \in DOMAIN sample
                      /\ sample[cols[i]] =
                            IF i > Len(tokens) THEN 0
                            ELSE IF ~Converts(cols[i], tokens[i]) THEN 0
                            ELSE ParsedValue(cols[i], tokens[i])

\* C16 witness: the line "[1027/151447] 5 x 7" under the built-in vocabulary
\* gives 5, 0, 7 and 0 for the columns that have no token.
C16_Witness ==
    /\ vm_pc = "done"
    /\ Len(vm_content) = 1
    /\ vm_content[1].rest = <<IntToken(5), BadToken, IntToken(7)>>
    /\ Len(vm_entries) = 1
    /\ vm_entries[1].pgmajfault = 5000
    /\ vm_entries[1].pgmajfault_f = 0
    /\ vm_entries[1].pgmajfault_a = 7000
    /\ vm_entries[1].cpufreq3 = 0

\* C17: parse_content returns one sample for each line that begins with a
\* bracketed stamp whose digits are a date-time, in the order of the lines
\* and unsorted; headers, blank lines, free text and stamps with invalid
\* digits contribute nothing.
C17_OneSamplePerStampedLine ==
    vm_pc = "done" =>
        /\ Len(vm_entries) = Cardinality(SampleLines)
        /\ \A k \in 1..Len(vm_entries) :
              LET line == vm_content[NthSampleLine(k, 1)]
              IN  /\ vm_entries[k].timestamp_raw = line.first.stamp
                  /\ vm_entries[k].timestamp =
                        VmlogParseTimestamp(line.first.stamp, vm_reference_year)

\* C17 witness: of three lines the middle one carries month 13; the two
\* samples come in line order, the later time first.
C17_Witness ==
    /\ vm_pc = "done"
    /\ Len(vm_content) = 3
    /\ vm_content[2].first.stamp = <<VmlogStamp(13, 27, 15, 14, 47)>>
    /\ Len(vm_entries) = 2
    /\ vm_entries[1].timestamp = datetime(2025, 10, 27, 15, 14, 47)
    /\ vm_entries[2].timestamp = datetime(2025, 10, 27, 15, 14, 46)

\* C18 (as stated): a parser built with default configuration stores in the
\* cpufreq fields the raw kHz integer read from the line (700000 for the
\* token 700000); the fields are divided by 1000 only when the conversion
\* flag is set, and then in every sample of the call.  The constructor's
\* default for convert_freq_to_mhz is True, so the default parser divides.
C18_RawKilohertzByDefault ==
    vm_pc = "done" =>
        \A k \in 1..Len(vm_entries) :
            LET n == NthSampleLine(k, 1)
                cols == ValueColumns(ActiveColumns(n))
                tokens == vm_content[n].rest
            IN  \A i \in 1..Len(cols) :
                    (cols[i] \in CPUFREQ_COLUMNS /\ i <= Len(tokens) /\ tokens[i].lit = "int")
                        => vm_entries[k][cols[i]] =
                              IF vm_convert_arg = "True"
                              THEN tokens[i].thousandths \div 1000
                              ELSE tokens[i].thousandths

(***************************************************************************)
(* Spike detection, stated on the samples themselves.                      *)
(***************************************************************************)
\* The positions (from 1) of the samples that carry cpuusage.
Carrying == {i \in 1..Len(sp_vmlog_data) : "cpuusage" \in DOMAIN sp_vmlog_data[i]}

RECURSIVE SumOver(_, _)
SumOver(positions, square) ==
    IF positions = {} THEN 0
    ELSE LET i == CHOOSE j \in positions : TRUE
             x == sp_vmlog_data[i].cpuusage
         IN  (IF square THEN x * x ELSE x) + SumOver(positions \ {i}, square)

CarryingCount == Cardinality(Carrying)
CarryingSum == SumOver(Carrying, FALSE)
\* n * n * (n - 1) times the sample variance: n * (n * sum x^2 - (sum x)^2)
ScaledVariance ==
    CarryingCount * (CarryingCount * SumOver(Carrying, TRUE) - CarryingSum * CarryingSum)
AllIdentical ==
    \A i \in Carrying : \A j \in Carrying :
        sp_vmlog_data[i].cpuusage = sp_vmlog_data[j].cpuusage
\* n * (value - mean) of the sample at position i
FromMean(i) == CarryingCount * sp_vmlog_data[i].cpuusage - CarryingSum
\* value > mean + k * stdev or value < mean - k * stdev, with the squares
\* compared and both sides taken n * n * (n - 1) * kd * kd times
IsSpike(i) ==
    /\ FromMean(i) # 0
    /\ FromMean(i) * FromMean(i) * (CarryingCount - 1) * sp_threshold[2] * sp_threshold[2]
         > sp_threshold[1] * sp_threshold[1] * ScaledVariance
SpikePositions == {i \in Carrying : IsSpike(i)}

C20_FixtureSpikeListed ==
    (sp_pc = "done" /\ sp_vmlog_data = FixtureSeries /\ sp_threshold = <<3, 2>>) =>
        \E j \in 1..Len(sp_spikes) :
            sp_spikes[j].value = 250 /\ sp_spikes[j].direction = "high"

(***************************************************************************)
(* Statistics and detectors: what the claims are stated with              *)
(***************************************************************************)
MetricNames == {METRIC_DEFINITIONS[m].metric : m \in 1..Len(METRIC_DEFINITIONS)}

\* The positions (from 1) of the samples that carry the metric.
CarryingOf(metric) ==
    {i \in 1..Len(an_vmlog_data) : metric \in DOMAIN an_vmlog_data[i]}

RECURSIVE TotalOver(_, _)
TotalOver(positions, metric) ==
    IF positions = {} THEN 0
    ELSE LET i == CHOOSE j \in positions : TRUE
         IN  an_vmlog_data[i][metric] + TotalOver(positions \ {i}, metric)

\* The value at index k (from 0) of the metric's values in ascending order:
\* fewer than k + 1 values are below it, at least k + 1 are not above it.
Ranked(metric, k) ==
    CHOOSE v \in {an_vmlog_data[i][metric] : i \in CarryingOf(metric)} :
        /\ Cardinality({i \in CarryingOf(metric) : an_vmlog_data[i][metric] < v}) <= k
        /\ Cardinality({i \in CarryingOf(metric) : an_vmlog_data[i][metric] <= v}) > k

StatsOf(metric) ==
    {j \in 1..Len(an_results.stats) : an_results.stats[j].metric = metric}

PercentileFields == {"p25", "p75", "p90", "p99"}

\* C21: on a non-empty list, for every metric present, calculate_stats gives
\* count = the number of values and min <= mean <= max; with exactly one value
\* stdev is 0 and median is that value; p25, p75, p90 and p99 are present
\* exactly when at least 4 values are, and are the sorted values at indices
\* n // 4, 3n // 4, floor(0.9 n) and floor(0.99 n), all below n.
C21_StatsContract ==
    ("stats" \in an_called /\ an_vmlog_data # <<>>) =>
        \A metric \in MetricNames :
            LET at == CarryingOf(metric)
                n == Cardinality(at)
                total == TotalOver(at, metric)
            IN  IF n = 0 THEN StatsOf(metric) = {}
                ELSE /\ Cardinality(StatsOf(metric)) = 1
                     /\ LET st == an_results.stats[CHOOSE j \in StatsOf(metric) : TRUE]
                        IN  /\ st.count = n
                            /\ \A i \in at : st.min <= an_vmlog_data[i][metric]
                                             /\ an_vmlog_data[i][metric] <= st.max
                            /\ st.mean[1] = total /\ st.mean[2] = n
                            /\ st.min * n <= total /\ total <= st.max * n
                            /\ n = 1 => /\ st.stdev[1] = 0
                                        /\ \A i \in at : st.median = <<an_vmlog_data[i][metric], 1>>
                            /\ (PercentileFields \subseteq DOMAIN st) <=> n >= 4
                            /\ (PercentileFields \cap DOMAIN st = {}) <=> n < 4
                            /\ n >= 4 =>
                                  /\ (99 * n) \div 100 < n
                                  /\ st.p25 = Ranked(metric, n \div 4)
                                  /\ st.p75 = Ranked(metric, (3 * n) \div 4)
                                  /\ st.p90 = Ranked(metric, (9 * n) \div 10)
                                  /\ st.p99 = Ranked(metric, (99 * n) \div 100)

\* C21 witness: statistics of a list in which one metric has four different
\* values, with percentiles that differ, and another a single value.
C21_Witness ==
    /\ "stats" \in an_called
    /\ Cardinality(CarryingOf("cpuusage")) = 4
    /\ Cardinality(CarryingOf("pgmajfault_f")) = 1
    /\ \E j \in 1..Len(an_results.stats) :
          /\ an_results.stats[j].metric = "cpuusage"
          /\ an_results.stats[j].min < an_results.stats[j].p25
          /\ an_results.stats[j].p25 < an_results.stats[j].p75
    /\ \E j \in 1..Len(an_results.stats) :
          /\ an_results.stats[j].metric = "pgmajfault_f"
          /\ an_results.stats[j].median = <<7, 1>>
          /\ "p25" \notin DOMAIN an_results.stats[j]

Methods == {"stats", "spikes", "changes", "activities", "bursts"}

FreqAt(i, metric) ==
    IF metric \in DOMAIN an_vmlog_data[i] THEN an_vmlog_data[i][metric] ELSE 0

Distance(a, b) == IF a >= b THEN a - b ELSE b - a

\* The pairs of a sample index (from 0, >= 1) and a frequency metric whose
\* value moved by more than half of the value before.
ExpectedChanges ==
    {c \in (1..(Len(an_vmlog_data) - 1)) \X {"cpufreq0", "cpufreq1", "cpufreq2", "cpufreq3"} :
        /\ FreqAt(c[1], c[2]) > 0
        /\ 2 * Distance(FreqAt(c[1] + 1, c[2]), FreqAt(c[1], c[2])) > FreqAt(c[1], c[2])}

\* C29: detect_cpu_frequency_changes reports sample index i >= 1 and
\* frequency metric m exactly when prev = samples[i - 1][m] > 0 and
\* |curr - prev| / prev > 0.5 (a change of exactly 50% is not reported,
\* nothing is for a prev of 0 or a missing one), in ascending order of the
\* index, with from_value = prev, to_value = curr and
\* change_pct = 100 * |curr - prev| / prev.
C29_FrequencyChanges ==
    "changes" \in an_called =>
        LET changes == an_results.changes
        IN  /\ {<<changes[j].index, changes[j].metric>> : j \in 1..Len(changes)}
                  = ExpectedChanges
            /\ Len(changes) = Cardinality(ExpectedChanges)
            /\ \A j \in 1..Len(changes) : \A l \in 1..Len(changes) :
                  j < l => changes[j].index <= changes[l].index
            /\ \A j \in 1..Len(changes) :
                  LET c == changes[j]
                      prev == FreqAt(c.index, c.metric)
                      curr == FreqAt(c.index + 1, c.metric)
                  IN  /\ c.from_value = prev
                      /\ c.to_value = curr
                      /\ c.change_pct = <<100 * Distance(curr, prev), prev>>
                      /\ c.change_pct[2] > 0
                      /\ c.timestamp = an_vmlog_data[c.index + 1].timestamp

\* C29 witness: a core goes from 1000 to 1500 (exactly half more, not
\* reported), on to 400 and back to 1000 (both reported), another from 1000
\* to 0 (reported) and back to 1000 (not reported: prev is 0).
C29_Witness ==
    /\ "changes" \in an_called
    /\ an_vmlog_data = [i \in 1..4 |-> AnSample(i, <<"quiet", "busy", "slow", "quiet">>[i])]
    /\ Len(an_results.changes) = 3
    /\ an_results.changes[1].index = 2

(***************************************************************************)
(* Sampling and segment records: what the claims are stated with          *)
(***************************************************************************)
\* C23: in every segment record the pipeline emits, start_time is the
\* timestamp of the first sample of the record's sample list and end_time
\* that of its last sample, also when the list was downsampled for being
\* longer than max_data_points.
C23_TimesOfFirstAndLastSample ==
    (sm_pc = "built" /\ sm_segment # Absent) =>
        /\ sm_segment.start_time = sm_segment.entries[1].timestamp
        /\ sm_segment.end_time = sm_segment.entries[Len(sm_segment.entries)].timestamp

\* The positions in the chunk of the samples sample_data returned.
SampledIds == [j \in 1..Len(sm_sampled) |-> sm_sampled[j].id]

\* The indices floor(i * step), i = 0, 1, ... while i * step < len.
FixedStepIds ==
    [j \in 1..sm_max_points |-> (((j - 1) * Len(sm_chunk_entries)) \div sm_max_points) + 1]

\* C28: sample_data returns its input unchanged when len(samples) <=
\* max_points; otherwise, with step = len / max_points, the samples at
\* indices floor(i * step) for i = 0, 1, ... while i * step < len: strictly
\* ascending indices, the first sample always among them, and at most
\* max_points samples.
C28_FixedStepSelection ==
    sm_pc = "sampled" =>
        IF Len(sm_chunk_entries) <= sm_max_points
        THEN sm_sampled = sm_chunk_entries
        ELSE /\ SampledIds = FixedStepIds
             /\ \A j \in 1..Len(sm_sampled) - 1 : SampledIds[j] < SampledIds[j + 1]
             /\ SampledIds[1] = 1
             /\ Len(sm_sampled) <= sm_max_points

\* The sections of fb_lines as the layout has them: a header line h, the
\* first START marker s behind it with no header in between, and the first
\* END marker e behind s.
WrittenSections ==
    {sec \in (1..Len(fb_lines)) \X (1..Len(fb_lines)) \X (1..Len(fb_lines)) :
        /\ sec[1] < sec[2] /\ sec[2] < sec[3]
        /\ fb_lines[sec[1]].kind = "header"
        /\ fb_lines[sec[2]].kind = "start"
        /\ fb_lines[sec[3]].kind = "end"
        /\ \A j \in (sec[1] + 1)..(sec[2] - 1) : fb_lines[j].kind \notin {"header", "start"}
        /\ \A j \in (sec[2] + 1)..(sec[3] - 1) : fb_lines[j].kind # "end"}

\* The texts of the lines strictly between two lines.
TextsBetween(s, e) == [j \in 1..(e - s - 1) |-> fb_lines[s + j].text]

\* No line behind line e gives the name again, as a header or as a key.
LastOfItsName(h, e) ==
    \A j \in (e + 1)..Len(fb_lines) :
        fb_lines[j].kind \in {"header", "simple"} => fb_lines[j].name # fb_lines[h].name

ContentLines ==
    {j \in 1..Len(fb_lines) : \E sec \in WrittenSections : sec[2] < j /\ j < sec[3]}

\* C26: for every section NAME=<multiline>, START marker, content lines, END
\* marker (the last to give that name), sections[NAME] is exactly the lines
\* strictly between the two markers, without the markers and without a line
\* between the header and the START marker; and a key=value line that is a
\* content line of a section is not recorded as a simple section.
C26_SectionIsWhatLiesBetweenMarkers ==
    fb_pc = "done" =>
        /\ \A sec \in WrittenSections :
              LastOfItsName(sec[1], sec[3]) =>
                  /\ fb_lines[sec[1]].name \in DOMAIN fb_sections
                  /\ fb_sections[fb_lines[sec[1]].name] = TextsBetween(sec[2], sec[3])
        /\ \A i \in ContentLines :
              (/\ fb_lines[i].kind = "simple"
               /\ \A j \in 1..Len(fb_lines) :
                     (fb_lines[j].kind = "simple" /\ fb_lines[j].name = fb_lines[i].name)
                         => j \in ContentLines)
                  => ~(/\ fb_lines[i].name \in DOMAIN fb_sections
                       /\ fb_sections[fb_lines[i].name] = <<fb_lines[i].value>>)

\* What holds of C26: the same for the sections none of whose content lines
\* is itself a header line.
C26_SectionsWithoutHeaderInside ==
    fb_pc = "done" =>
        /\ \A sec \in WrittenSections :
              (/\ LastOfItsName(sec[1], sec[3])
               /\ \A j \in (sec[2] + 1)..(sec[3] - 1) : fb_lines[j].kind # "header") =>
                  /\ fb_lines[sec[1]].name \in DOMAIN fb_sections
                  /\ fb_sections[fb_lines[sec[1]].name] = TextsBetween(sec[2], sec[3])
        /\ \A i \in ContentLines :
              fb_lines[i].kind = "simple" /\ fb_lines[i].name = "HWID"
              /\ (\A j \in 1..Len(fb_lines) : fb_lines[j].name = "HWID" => j \in ContentLines)
                  => "HWID" \notin DOMAIN fb_sections

\* What a call that is over came to: whether it returned or raised, and the
\* entries it returned.
OutcomeOf(call) == <<call.status, call.entries>>

\* The outcome of parse_content(content) on an instance just made.
OutcomeAlone(parser, content) ==
    IF parser = "VmlogParser"
    THEN <<"returned", VmParseContent(content, CallYear, TRUE)>>
    ELSE OutcomeOf(TempParseContent(content).call)

\* C25: when two parse_content calls on one VmlogParser or one
\* TempLoggerParser run one after the other in either order, or interleaved
\* line by line, each call returns what it would return on a fresh instance:
\* what a call writes to self (columns, the sensor-name sets) has no part in
\* what any call returns.
C25_CallsAreIndependent ==
    \A c \in DOMAIN ps_calls :
        ps_calls[c].status # "running" =>
            OutcomeOf(ps_calls[c]) = OutcomeAlone(ps_parser, ps_calls[c].content)

\* C25 witness: call 1 has read its header and not yet its data line; call 2
\* read its own header after that (self.columns is the one of call 2), then
\* its data line, and returned the entry with its own columns.
C25_Witness ==
    /\ ps_parser = "VmlogParser"
    /\ Len(ps_calls[1].content) = 2 /\ Len(ps_calls[2].content) = 2
    /\ ps_calls[1].status = "running" /\ ps_calls[1].i = 2
    /\ ps_calls[1].columns = <<"time", "cpuusage", "cpufreq0">>
    /\ ps_calls[2].status = "returned"
    /\ ps_self.columns = <<"time", "pgmajfault", "pswpin", "cpuusage">>
    /\ Len(ps_calls[2].entries) = 1
    /\ "pswpin" \in DOMAIN ps_calls[2].entries[1]

\* The sensor names in the entries call c has returned.
ReturnedNames(c, field) ==
    IF ps_calls[c].status # "returned" THEN {}
    ELSE UNION {{reading[1] : reading \in ps_calls[c].entries[j][field]} :
                   j \in 1..Len(ps_calls[c].entries)}

\* C30: over any sequence of parse_content calls on one TempLoggerParser the
\* three sets of sensor names only grow, no name once in a set leaves it,
\* and after every step each set holds every sensor name that occurs in an
\* entry a call has returned so far.
C30_SensorSetsAppendOnly ==
    [][ ps_parser = "TempLoggerParser" =>
          /\ ps_self.temperature_sensors \subseteq ps_self'.temperature_sensors
          /\ ps_self.power_sensors \subseteq ps_self'.power_sensors
          /\ ps_self.fan_sensors \subseteq ps_self'.fan_sensors
          /\ \A c \in CallIds :
                /\ ReturnedNames(c, "temperatures")' \subseteq ps_self'.temperature_sensors
                /\ ReturnedNames(c, "power")' \subseteq ps_self'.power_sensors
                /\ ReturnedNames(c, "fans")' \subseteq ps_self'.fan_sensors ]_vars

\* C30 witness: one call returned two entries, sorted, with the names TCPU,
\* TSR0, PL1 and Fan0RPM; the other raised on a power value after it had
\* added TSR2, which is in the set and in no entry.
C30_Witness ==
    /\ ps_parser = "TempLoggerParser"
    /\ ps_calls[1].status = "returned"
    /\ Len(ps_calls[1].entries) = 2
    /\ ps_calls[1].entries[1].timestamp < ps_calls[1].entries[2].timestamp
    /\ ps_calls[2].status = "raised"
    /\ Len(ps_calls[2].content) = 2
    /\ ps_self.temperature_sensors = {"TCPU", "TSR0", "TSR2"}
    /\ ps_self.power_sensors = {"PL1"}
    /\ ps_self.fan_sensors = {"Fan0RPM"}

\* A vmlog text without a line that is not blank: '' and the like.
BlankContent(content) == \A i \in 1..Len(content) : content[i].first.kind = "blank"

\* C24: on empty input the core operations return an empty result and do
\* not raise: split_entries_by_time_gap([]) = [],
\* split_entries_by_max_duration([]) = [], _find_nearest_timestamp([], t) is
\* None for every t, calculate_stats([]) = {}, every detector returns [] on
\* [], VmlogParser.parse_content('') = [], and map_to_vmlog_timeline
\* (events, []) returns the events as they were, no field added.
C24_EmptyInEmptyOut ==
    [][ /\ (seg_pc' = "gap" /\ entries = <<>>) => gap_chunks' = <<>>
        /\ (seg_pc' = "duration" /\ entries = <<>>) => duration_chunks' = <<>>
        /\ (near_pc' = "done" /\ timestamps = <<>>) => nearest' = None
        /\ an_vmlog_data = <<>> =>
              \A name \in an_called' : an_results'[name] = <<>>
        /\ (sp_pc' = "done" /\ sp_vmlog_data = <<>>) => sp_spikes' = <<>>
        /\ (vm_pc' = "done" /\ BlankContent(vm_content)) => vm_entries' = <<>>
        /\ (ev_pc' = "mapped" /\ ev_vmlog_data' = <<>>) => ev_events' = ev_events
      ]_vars

\* C24 witness: events with a timestamp were mapped to no samples at all
\* and carry no vmlog_index.
C24_Witness ==
    /\ ev_pc = "mapped"
    /\ ev_vmlog_data = <<>>
    /\ Len(ev_events) >= 2
    /\ \A i \in 1..Len(ev_events) :
          /\ ev_events[i].timestamp # Absent
          /\ "vmlog_index" \notin DOMAIN ev_events[i]

====
